---- MODULE Spec2Model ----
(***************************************************************************)
(* Model of boldkit's barcode partitioner (cmd/split.go, the version that  *)
(* defines buildSplitPlan) and of the BIOSCAN-5M curation engine           *)
(* (cmd/extract_protocol_bioscan5m*.go).                                   *)
(*                                                                         *)
(* A FASTA file is a sequence of records [id, seq]; process ids are the    *)
(* naturals 1..n and sequences are drawn from Seqs.  The taxonkit label    *)
(* table is a sequence of rows [pid, species] where species 0 stands for   *)
(* an empty / "None" species field and a positive number for a label.      *)
(***************************************************************************)
EXTENDS Integers, Sequences, FiniteSets, TLC

\* ------------------------------------------------------------------ bounds
MaxRecords == 8
MaxOther == 1
MaxRows == 4
MaxCaseRows == 2
MaxNodes == 4

Seqs == {1, 2, 3}
Labels == {1, 2}
MainLabel == CHOOSE l \in Labels : \A m \in Labels : l <= m

\* ------------------------------------------------- constants of split.go
bucketSeenTrain == "seen_train"
bucketSeenVal == "seen_val"
bucketSeenTest == "seen_test"
bucketUnseenTest == "test_unseen"
bucketUnseenVal == "val_unseen"
bucketUnseenKeys == "keys_unseen"
bucketHeldout == "other_heldout"
bucketPretrain == "pretrain"

Buckets ==
  {bucketSeenTrain, bucketSeenVal, bucketSeenTest, bucketUnseenTest,
   bucketUnseenVal, bucketUnseenKeys, bucketHeldout, bucketPretrain}

SeenMinTotal == 8
SeenMinBarcodes == 2
TestCap == 25
UnseenCutoff == 128

\* ---------------------------------------------------------------- hashes
\* md5.Sum of a sequence: a 16-byte digest compared bytewise, i.e. as a
\* big-endian number.  The digest is an injection on Seqs that does not
\* follow the order of the sequences themselves.
Md5Sum(s) == (s * 5 + 3) % 7

lessHash(a, b) == a < b

\* First digest byte of md5(label).
classHashByte(label) == (label * 91) % 256

ceilDiv(a, b) == IF b <= 0 \/ a <= 0 THEN 0 ELSE (a + b - 1) \div b

minInt(a, b) == IF a < b THEN a ELSE b

\* ------------------------------------------------------------- utilities
Range(f) == {f[x] : x \in DOMAIN f}

Perms(S) == {p \in [1..Cardinality(S) -> S] : Range(p) = S}

Put(f, k, v) == [x \in (DOMAIN f) \cup {k} |-> IF x = k THEN v ELSE f[x]]

EmptyMap == [x \in {} |-> 0]

\* --------------------------------------------------- loadProcessLabelMap
\* One data row of the taxonkit TSV, applied to the accumulator
\* [labels, invalid, found, err].
labelRow(acc, row, wantedIDs) ==
  IF acc.err THEN acc
  ELSE IF row.pid \notin wantedIDs THEN acc
  ELSE IF row.species = 0
    THEN [acc EXCEPT !.invalid = @ \cup {row.pid}]
  ELSE IF row.pid \in DOMAIN acc.labels /\ acc.labels[row.pid] # row.species
    THEN [acc EXCEPT !.err = TRUE]
  ELSE [acc EXCEPT !.labels = Put(@, row.pid, row.species), !.found = @ + 1]

RECURSIVE labelRows(_, _, _, _)
labelRows(acc, rows, i, wantedIDs) ==
  IF i > Len(rows) THEN acc
  ELSE labelRows(labelRow(acc, rows[i], wantedIDs), rows, i + 1, wantedIDs)

loadProcessLabelMap(rows, wantedIDs) ==
  LET acc == labelRows([labels |-> EmptyMap, invalid |-> {}, found |-> 0,
                        err |-> FALSE], rows, 1, wantedIDs)
      missing == {pid \in wantedIDs :
                    pid \notin DOMAIN acc.labels /\ pid \notin acc.invalid}
  IN  [labels |-> acc.labels,
       invalid |-> acc.invalid \cup missing,
       err |-> acc.err \/ acc.found = 0]

\* -------------------------------------------------- buildSplitPlan, pass 1
zeroGroup == [label |-> 0, count |-> 0, conflict |-> FALSE]

\* Variant of groupRecord that counts a record only once it is known to be
\* labelled (TotalRecords incremented after the early returns).
groupRecordCountsLabelled(acc, rec, labelMap) ==
  IF rec.id \in acc.invalid THEN acc
  ELSE IF rec.id \notin DOMAIN labelMap
    THEN [acc EXCEPT !.invalid = @ \cup {rec.id}]
  ELSE
    LET label == labelMap[rec.id]
        hash == Md5Sum(rec.seq)
        group == IF hash \in DOMAIN acc.groups THEN acc.groups[hash]
                 ELSE zeroGroup
        g1 == IF group.count = 0 THEN [group EXCEPT !.label = label]
              ELSE IF group.label # label THEN [group EXCEPT !.conflict = TRUE]
              ELSE group
        g2 == [g1 EXCEPT !.count = @ + 1]
    IN  [acc EXCEPT !.groups = Put(@, hash, g2), !.total = @ + 1]

\* Variant of groupRecord that keeps the latest label of a group instead of
\* flagging the group as conflicted.
groupRecordLastLabel(acc, rec, labelMap) ==
  LET counted == [acc EXCEPT !.total = @ + 1] IN
  IF rec.id \in acc.invalid THEN counted
  ELSE IF rec.id \notin DOMAIN labelMap
    THEN [counted EXCEPT !.invalid = @ \cup {rec.id}]
  ELSE
    LET label == labelMap[rec.id]
        hash == Md5Sum(rec.seq)
        group == IF hash \in DOMAIN acc.groups THEN acc.groups[hash]
                 ELSE zeroGroup
        g2 == [group EXCEPT !.label = label, !.count = @ + 1]
    IN  [counted EXCEPT !.groups = Put(@, hash, g2)]

\* The parseFasta callback of buildSplitPlan, applied to the accumulator
\* [groups, total, invalid].
groupRecord(acc, rec, labelMap) ==
  LET counted == [acc EXCEPT !.total = @ + 1] IN
  IF rec.id \in acc.invalid THEN counted
  ELSE IF rec.id \notin DOMAIN labelMap
    THEN [counted EXCEPT !.invalid = @ \cup {rec.id}]
  ELSE
    LET label == labelMap[rec.id]
        hash == Md5Sum(rec.seq)
        group == IF hash \in DOMAIN acc.groups THEN acc.groups[hash]
                 ELSE zeroGroup
        g1 == IF group.count = 0 THEN [group EXCEPT !.label = label]
              ELSE IF group.label # label THEN [group EXCEPT !.conflict = TRUE]
              ELSE group
        g2 == [g1 EXCEPT !.count = @ + 1]
    IN  [counted EXCEPT !.groups = Put(@, hash, g2)]

RECURSIVE groupRecords(_, _, _, _)
groupRecords(acc, recs, i, labelMap) ==
  IF i > Len(recs) THEN acc
  ELSE groupRecords(groupRecord(acc, recs[i], labelMap), recs, i + 1, labelMap)

\* ------------------------------------------------------------ assignUnits
RECURSIVE fillTarget(_, _, _, _, _)
fillTarget(seqBucket, units, idx, acc, t) ==
  IF idx <= Len(units) /\ acc < t.target
    THEN fillTarget(Put(seqBucket, units[idx].hash, t.bucket), units, idx + 1,
                    acc + units[idx].count, t)
    ELSE [seqBucket |-> seqBucket, idx |-> idx]

RECURSIVE fillRest(_, _, _, _)
fillRest(seqBucket, units, idx, bucket) ==
  IF idx <= Len(units)
    THEN fillRest(Put(seqBucket, units[idx].hash, bucket), units, idx + 1, bucket)
    ELSE seqBucket

RECURSIVE assignFrom(_, _, _, _, _)
assignFrom(seqBucket, units, targets, ti, idx) ==
  IF ti > Len(targets) THEN seqBucket
  ELSE IF idx > Len(units) THEN seqBucket
  ELSE IF targets[ti].target < 0
    THEN fillRest(seqBucket, units, idx, targets[ti].bucket)
  ELSE LET r == fillTarget(seqBucket, units, idx, 0, targets[ti])
       IN  assignFrom(r.seqBucket, units, targets, ti + 1, r.idx)

assignUnits(seqBucket, units, targets) ==
  assignFrom(seqBucket, units, targets, 1, 1)

\* ------------------------------------------------- buildSplitPlan, part 2
\* sort.Slice(units, lessHash): insertion into an ascending sequence.
RECURSIVE insertUnit(_, _, _)
insertUnit(sorted, u, i) ==
  IF i > Len(sorted) THEN Append(sorted, u)
  ELSE IF lessHash(u.hash, sorted[i].hash)
    THEN SubSeq(sorted, 1, i - 1) \o <<u>> \o SubSeq(sorted, i, Len(sorted))
  ELSE insertUnit(sorted, u, i + 1)

RECURSIVE sortFrom(_, _, _)
sortFrom(sorted, units, i) ==
  IF i > Len(units) THEN sorted
  ELSE sortFrom(insertUnit(sorted, units[i], 1), units, i + 1)

\* Variant of sortUnits that leaves the units in map iteration order.
sortUnitsUnsorted(units) == units

sortUnits(units) == sortFrom(<<>>, units, 1)

\* speciesUnits[label]: the non-conflicted groups of the label, appended in
\* the order in which the map barcodeGroups is iterated.
RECURSIVE unitsOf(_, _, _, _)
unitsOf(groups, order, i, label) ==
  IF i > Len(order) THEN <<>>
  ELSE LET g == groups[order[i]]
           rest == unitsOf(groups, order, i + 1, label)
       IN  IF ~g.conflict /\ g.label = label
             THEN <<[hash |-> order[i], count |-> g.count]>> \o rest
             ELSE rest

RECURSIVE sumCounts(_, _)
sumCounts(units, i) ==
  IF i > Len(units) THEN 0 ELSE units[i].count + sumCounts(units, i + 1)

speciesLabels(groups) ==
  {groups[h].label : h \in {k \in DOMAIN groups : ~groups[k].conflict}}

isSeenClass(total, uniqueBarcodes) ==
  total >= SeenMinTotal /\ uniqueBarcodes >= SeenMinBarcodes

classOf(label, total, uniqueBarcodes) ==
  IF isSeenClass(total, uniqueBarcodes) THEN "seen"
  ELSE IF classHashByte(label) < UnseenCutoff THEN "unseen"
  ELSE "heldout"

\* Variant of seenTargets: the val quota is a fifth of the rest, as for an
\* unseen class.
seenTargetsValFifth(total) ==
  LET testTarget == minInt(TestCap, ceilDiv(2 * total, 10))
      valTarget == ceilDiv(total - testTarget, 5)
  IN  <<[bucket |-> bucketSeenTest, target |-> testTarget],
        [bucket |-> bucketSeenVal, target |-> valTarget],
        [bucket |-> bucketSeenTrain, target |-> -1]>>

seenTargets(total) ==
  LET testTarget == minInt(TestCap, ceilDiv(2 * total, 10))
      valTarget == ceilDiv(total - testTarget, 20)
  IN  <<[bucket |-> bucketSeenTest, target |-> testTarget],
        [bucket |-> bucketSeenVal, target |-> valTarget],
        [bucket |-> bucketSeenTrain, target |-> -1]>>

\* Variant of unseenTargets whose last target is the seen-class train bucket.
unseenTargetsIntoTrain(total) ==
  LET testTarget == minInt(TestCap, ceilDiv(2 * total, 10))
      valTarget == ceilDiv(total - testTarget, 5)
  IN  <<[bucket |-> bucketUnseenTest, target |-> testTarget],
        [bucket |-> bucketUnseenVal, target |-> valTarget],
        [bucket |-> bucketSeenTrain, target |-> -1]>>

unseenTargets(total) ==
  LET testTarget == minInt(TestCap, ceilDiv(2 * total, 10))
      valTarget == ceilDiv(total - testTarget, 5)
  IN  <<[bucket |-> bucketUnseenTest, target |-> testTarget],
        [bucket |-> bucketUnseenVal, target |-> valTarget],
        [bucket |-> bucketUnseenKeys, target |-> -1]>>

\* One iteration of the loop over speciesUnits.
planLabel(seqBucket, label, appended) ==
  LET total == sumCounts(appended, 1)
      uniqueBarcodes == Len(appended)
      units == sortUnits(appended)
      class == classOf(label, total, uniqueBarcodes)
  IN  IF class = "seen" THEN assignUnits(seqBucket, units, seenTargets(total))
      ELSE IF class = "unseen"
        THEN assignUnits(seqBucket, units, unseenTargets(total))
      ELSE fillRest(seqBucket, units, 1, bucketHeldout)

RECURSIVE planLabels(_, _, _, _)
planLabels(seqBucket, todo, groups, order) ==
  IF todo = {} THEN seqBucket
  ELSE LET label == CHOOSE l \in todo : TRUE
       IN  planLabels(planLabel(seqBucket, label, unitsOf(groups, order, 1, label)),
                      todo \ {label}, groups, order)

classCount(groups, order, class) ==
  Cardinality({l \in speciesLabels(groups) :
     LET u == unitsOf(groups, order, 1, l)
     IN  classOf(l, sumCounts(u, 1), Len(u)) = class})

\* buildSplitPlan: both parts.  order is the iteration order of the map
\* barcodeGroups (a permutation of its keys).
planOf(acc, order) ==
  [seqBucket |-> planLabels(EmptyMap, speciesLabels(acc.groups), acc.groups, order),
   conflicted |-> {h \in DOMAIN acc.groups : acc.groups[h].conflict},
   invalidIDs |-> acc.invalid]

statsOf(acc, order) ==
  [TotalRecords |-> acc.total,
   TotalClasses |-> Cardinality(speciesLabels(acc.groups)),
   SeenClasses |-> classCount(acc.groups, order, "seen"),
   UnseenClasses |-> classCount(acc.groups, order, "unseen"),
   HeldoutClasses |-> classCount(acc.groups, order, "heldout")]

pass1(recs, labelMap, invalid) ==
  groupRecords([groups |-> EmptyMap, total |-> 0, invalid |-> invalid],
               recs, 1, labelMap)

\* -------------------------------------------------------- writeSplitFastas
\* The bucket the parseFasta callback of writeSplitFastas picks for a record.
recordBucket(rec, splitPlan, labelMap) ==
  IF rec.id \in splitPlan.invalidIDs THEN bucketPretrain
  ELSE IF rec.id \notin DOMAIN labelMap THEN bucketPretrain
  ELSE LET hash == Md5Sum(rec.seq) IN
       IF hash \in splitPlan.conflicted THEN bucketPretrain
       ELSE IF hash \in DOMAIN splitPlan.seqBucket THEN splitPlan.seqBucket[hash]
       ELSE bucketPretrain

\* files[b] is the sequence of process ids written to bucket b's FASTA.
RECURSIVE writeRecords(_, _, _, _, _)
writeRecords(out, recs, i, splitPlan, labelMap) ==
  IF i > Len(recs) THEN out
  ELSE LET b == recordBucket(recs[i], splitPlan, labelMap)
           next == [files |-> [out.files EXCEPT ![b] = Append(@, recs[i].id)],
                    counts |-> [out.counts EXCEPT ![b] = @ + 1]]
       IN  writeRecords(next, recs, i + 1, splitPlan, labelMap)

writeSplitFastas(recs, splitPlan, labelMap) ==
  writeRecords([files |-> [b \in Buckets |-> <<>>],
                counts |-> [b \in Buckets |-> 0]], recs, 1, splitPlan, labelMap)

\* ------------------------------------------------------ partitioner state
\* ======================================================================
\* The BIOSCAN-5M curation engine.
\*
\* A string is a sequence of atoms.  An atom is a whitespace-free token or
\* Space, which stands for one surplus whitespace character; neighbouring
\* tokens are separated by a single blank.  <<>> is the empty string,
\* <<"Homo", "sapiens">> is "Homo sapiens", <<Space, "BOLD:A">> is
\* " BOLD:A" and <<"Homo", Space, "sapiens">> is "Homo  sapiens".
\* ======================================================================
Space == " "

\* The tokens of the model in byte order, the order of strings.Compare.
tokenOrder ==
  <<"BOLD:A", "BOLD:B", "Hominidae", "Hominini", "Homo", "None", "Pan",
    "Sapiens", "bold:a", "bold:b", "erectus", "habilis", "hominidae",
    "hominini", "homo", "incertae", "none", "pan", "sapiens", "sedis", "sp",
    "sp.", "subfam", "subfam.">>

Tokens == Range(tokenOrder)

tokenRank(tok) == CHOOSE i \in DOMAIN tokenOrder : tokenOrder[i] = tok

\* strings.ToLower on one atom.
lowerToken(tok) ==
  CASE tok = "BOLD:A" -> "bold:a"
    [] tok = "BOLD:B" -> "bold:b"
    [] tok = "Hominidae" -> "hominidae"
    [] tok = "Hominini" -> "hominini"
    [] tok = "Homo" -> "homo"
    [] tok = "None" -> "none"
    [] tok = "Pan" -> "pan"
    [] tok = "Sapiens" -> "sapiens"
    [] OTHER -> tok

toLower(value) == [i \in DOMAIN value |-> lowerToken(value[i])]

\* strings.Trim(token, ".,;:()[]{}") on one atom.
trimPunct(tok) ==
  CASE tok = "sp." -> "sp"
    [] tok = "subfam." -> "subfam"
    [] OTHER -> tok

\* Tokens whose first rune is an upper-case letter and whose other runes
\* are letters or '-'.
genusShaped == {"Hominidae", "Hominini", "Homo", "None", "Pan", "Sapiens"}

\* Tokens made of lower-case letters and '-' only.
epithetShaped ==
  {"erectus", "habilis", "hominidae", "hominini", "homo", "incertae",
   "none", "pan", "sapiens", "sedis", "sp", "subfam"}

\* strings.Fields, joined again with single blanks.
fields(value) == SelectSeq(value, LAMBDA a : a # Space)

RECURSIVE trimLeft(_)
trimLeft(value) ==
  IF value # <<>> /\ Head(value) = Space THEN trimLeft(Tail(value)) ELSE value

RECURSIVE trimRight(_)
trimRight(value) ==
  IF value # <<>> /\ value[Len(value)] = Space
    THEN trimRight(SubSeq(value, 1, Len(value) - 1))
    ELSE value

TrimSpace(value) == trimRight(trimLeft(value))

EqualFold(a, b) == toLower(a) = toLower(b)

\* strings.Compare(a, b) < 0 on strings without surplus whitespace.
RECURSIVE lexLess(_, _)
lexLess(a, b) ==
  IF b = <<>> THEN FALSE
  ELSE IF a = <<>> THEN TRUE
  ELSE IF Head(a) = Head(b) THEN lexLess(Tail(a), Tail(b))
  ELSE tokenRank(Head(a)) < tokenRank(Head(b))

bioscanSpeciesEmpty == "empty"
bioscanSpeciesResolved == "resolved"
bioscanSpeciesOpen == "open"

\* The placeholder set; its member "" is the empty string <<>>.
bioscanPlaceholderTokens ==
  {"-", "n/a", "na", "none", "null", "unclassified", "undetermined",
   "unidentified", "unknown"}

bioscanOpenNomenclatureTokens ==
  {"aff", "cf", "complex", "group", "indet", "nr", "sp", "spp", "species",
   "undescribed", "unknown"}

bioscanNormalizeLabel(value) ==
  LET parts == fields(TrimSpace(value)) IN
  IF parts = <<>> THEN <<>>
  ELSE IF Len(parts) = 1 /\ lowerToken(parts[1]) \in bioscanPlaceholderTokens
    THEN <<>>
    ELSE parts

bioscanNormalizeToken(token) ==
  LET t == toLower(TrimSpace(token)) IN
  IF Len(t) = 1 THEN <<trimPunct(t[1])>> ELSE t

bioscanIsOpenMarker(token) ==
  LET t == bioscanNormalizeToken(token) IN
  Len(t) = 1 /\ t[1] \in bioscanOpenNomenclatureTokens

bioscanIsGenusToken(token) ==
  LET t == TrimSpace(token) IN Len(t) = 1 /\ t[1] \in genusShaped

bioscanIsEpithetToken(token) ==
  LET t == TrimSpace(token) IN Len(t) = 1 /\ t[1] \in epithetShaped

speciesInfo(kind, normalized, canonical, genus, epithet) ==
  [Kind |-> kind, Normalized |-> normalized, Canonical |-> canonical,
   Genus |-> genus, Epithet |-> epithet]

\* Variant of bioscanParseSpecies: the canonical string is lower-cased as
\* a whole.
bioscanParseSpeciesLowerCanonical(species) ==
  LET norm == bioscanNormalizeLabel(species)
      parts == fields(norm)
      open == speciesInfo(bioscanSpeciesOpen, norm, <<>>, <<>>, <<>>)
  IN
  IF norm = <<>> THEN speciesInfo(bioscanSpeciesEmpty, <<>>, <<>>, <<>>, <<>>)
  ELSE IF Len(parts) < 2 THEN open
  ELSE IF \E i \in 1..Len(parts) : bioscanIsOpenMarker(<<parts[i]>>) THEN open
  ELSE LET genus == <<parts[1]>>
           epithet == toLower(<<parts[2]>>)
       IN  IF ~bioscanIsGenusToken(genus) \/ ~bioscanIsEpithetToken(epithet)
             THEN open
             ELSE speciesInfo(bioscanSpeciesResolved, norm,
                              toLower(genus \o epithet), genus, epithet)

bioscanParseSpecies(species) ==
  LET norm == bioscanNormalizeLabel(species)
      parts == fields(norm)
      open == speciesInfo(bioscanSpeciesOpen, norm, <<>>, <<>>, <<>>)
  IN
  IF norm = <<>> THEN speciesInfo(bioscanSpeciesEmpty, <<>>, <<>>, <<>>, <<>>)
  ELSE IF Len(parts) < 2 THEN open
  ELSE IF \E i \in 1..Len(parts) : bioscanIsOpenMarker(<<parts[i]>>) THEN open
  ELSE LET genus == <<parts[1]>>
           epithet == toLower(<<parts[2]>>)
       IN  IF ~bioscanIsGenusToken(genus) \/ ~bioscanIsEpithetToken(epithet)
             THEN open
             ELSE speciesInfo(bioscanSpeciesResolved, norm, genus \o epithet,
                              genus, epithet)

bioscanInferGenus(species) ==
  LET norm == bioscanNormalizeLabel(species)
      parts == fields(norm)
  IN  IF norm = <<>> \/ parts = <<>> THEN <<>>
      ELSE IF bioscanIsOpenMarker(<<parts[1]>>) THEN <<>>
      ELSE IF bioscanIsGenusToken(<<parts[1]>>) THEN <<parts[1]>>
      ELSE <<>>

bioscanProvisionalSpecies(genus, binURI) ==
  LET g == bioscanNormalizeLabel(genus)
      b == bioscanNormalizeLabel(binURI)
  IN  IF g = <<>> \/ b = <<>> THEN <<>> ELSE g \o <<"sp.">> \o b

\* ------------------------------------------- bioscanBinSpeciesResolver
\* resolver.counts maps a BIN to a map from canonical species to its count.

\* Variant of Observe: the explicit genus is not compared with the genus of
\* the species.
ObserveAnyGenus(cs, binURI, genus, species) ==
  LET bin == bioscanNormalizeLabel(binURI)
      info == bioscanParseSpecies(species)
      bySpecies == IF bin \in DOMAIN cs THEN cs[bin] ELSE EmptyMap
      n == IF info.Canonical \in DOMAIN bySpecies
             THEN bySpecies[info.Canonical] ELSE 0
  IN  IF bin = <<>> THEN cs
      ELSE IF info.Kind # bioscanSpeciesResolved \/ info.Canonical = <<>>
        THEN cs
      ELSE Put(cs, bin, Put(bySpecies, info.Canonical, n + 1))

Observe(cs, binURI, genus, species) ==
  LET bin == bioscanNormalizeLabel(binURI)
      info == bioscanParseSpecies(species)
      g == bioscanNormalizeLabel(genus)
      bySpecies == IF bin \in DOMAIN cs THEN cs[bin] ELSE EmptyMap
      n == IF info.Canonical \in DOMAIN bySpecies
             THEN bySpecies[info.Canonical] ELSE 0
  IN  IF bin = <<>> THEN cs
      ELSE IF info.Kind # bioscanSpeciesResolved \/ info.Canonical = <<>>
        THEN cs
      ELSE IF g # <<>> /\ ~EqualFold(g, info.Genus) THEN cs
      ELSE Put(cs, bin, Put(bySpecies, info.Canonical, n + 1))

noResolution == [Canonical |-> <<>>, Accepted |-> FALSE, Conflict |-> FALSE]

accepted(species) == [Canonical |-> species, Accepted |-> TRUE, Conflict |-> FALSE]

conflict == [Canonical |-> <<>>, Accepted |-> FALSE, Conflict |-> TRUE]

\* One iteration of the loop of Resolve over bySpecies.
resolveStep(acc, species, count) ==
  IF \/ count > acc.bestCount
     \/ /\ count = acc.bestCount
        /\ (acc.best = <<>> \/ lexLess(species, acc.best))
    THEN [best |-> species, bestCount |-> count, second |-> acc.bestCount,
          total |-> acc.total + count]
    ELSE [acc EXCEPT !.total = acc.total + count,
                     !.second = IF count > acc.second THEN count ELSE acc.second]

RECURSIVE resolveScan(_, _, _, _)
resolveScan(bySpecies, order, i, acc) ==
  IF i > Len(order) THEN acc
  ELSE resolveScan(bySpecies, order, i + 1,
                   resolveStep(acc, order[i], bySpecies[order[i]]))

\* Variant of resolveVerdict: the top species is accepted without a strict
\* majority.
resolveVerdictPlurality(acc) ==
  IF acc.best # <<>> /\ acc.bestCount > acc.second
    THEN accepted(acc.best)
    ELSE conflict

\* Variant of resolveVerdict: a tie at the top goes to the first name.
resolveVerdictTieBreak(acc) ==
  IF acc.best # <<>> /\ acc.bestCount * 2 >= acc.total
    THEN accepted(acc.best)
    ELSE conflict

\* Variant of resolveVerdict: the top species is accepted whatever the
\* other counts are.
resolveVerdictTopWins(acc) ==
  IF acc.best # <<>> THEN accepted(acc.best) ELSE conflict

\* Variant of resolveVerdict: a conflict names the top species.
resolveVerdictNamesTop(acc) ==
  IF acc.best # <<>> /\ acc.bestCount > acc.second /\ acc.bestCount * 2 > acc.total
    THEN accepted(acc.best)
    ELSE [conflict EXCEPT !.Canonical = acc.best]

\* The closing test of Resolve.
resolveVerdict(acc) ==
  IF acc.best # <<>> /\ acc.bestCount > acc.second /\ acc.bestCount * 2 > acc.total
    THEN accepted(acc.best)
    ELSE conflict

\* Resolve, iterating the species of the BIN in the given order (the
\* order of a Go map range is not fixed).
Resolve(cs, binURI, order) ==
  LET bin == bioscanNormalizeLabel(binURI) IN
  IF bin = <<>> THEN noResolution
  ELSE IF bin \notin DOMAIN cs THEN noResolution
  ELSE LET bySpecies == cs[bin] IN
       IF DOMAIN bySpecies = {} THEN noResolution
       ELSE IF Cardinality(DOMAIN bySpecies) = 1
         THEN accepted(CHOOSE s \in DOMAIN bySpecies : TRUE)
         ELSE resolveVerdict(
                resolveScan(bySpecies, order, 1,
                            [best |-> <<>>, bestCount |-> -1, second |-> -1,
                             total |-> 0]))

\* Variant of canonicalStep: on equal counts the species met first stays.
canonicalStepFirstMet(acc, species, count) ==
  IF count > acc.bestCount
    THEN [best |-> species, bestCount |-> count]
    ELSE acc

\* One iteration of the loop of Canonical over bySpecies.
canonicalStep(acc, species, count) ==
  IF \/ count > acc.bestCount
     \/ /\ count = acc.bestCount
        /\ (acc.best = <<>> \/ lexLess(species, acc.best))
    THEN [best |-> species, bestCount |-> count]
    ELSE acc

RECURSIVE canonicalScan(_, _, _, _)
canonicalScan(bySpecies, order, i, acc) ==
  IF i > Len(order) THEN acc
  ELSE canonicalScan(bySpecies, order, i + 1,
                     canonicalStep(acc, order[i], bySpecies[order[i]]))

\* Canonical, iterating the species of the BIN in the given order: the top
\* species of the BIN and whether there is one.
Canonical(cs, binURI, order) ==
  LET bin == bioscanNormalizeLabel(binURI)
      none == [species |-> <<>>, ok |-> FALSE]
  IN
  IF bin = <<>> THEN none
  ELSE IF bin \notin DOMAIN cs THEN none
  ELSE IF DOMAIN cs[bin] = {} THEN none
  ELSE LET acc == canonicalScan(cs[bin], order, 1,
                                [best |-> <<>>, bestCount |-> -1])
       IN  IF acc.best = <<>> THEN none
           ELSE [species |-> acc.best, ok |-> TRUE]

\* The orders in which Resolve may meet the species of a BIN.
resolveOrders(cs, binURI) ==
  LET bin == bioscanNormalizeLabel(binURI) IN
  IF bin \in DOMAIN cs THEN Perms(DOMAIN cs[bin]) ELSE {<<>>}

\* ------------------------------------------------------ bioscan5MCurator
rulePlaceholderNormalize == "placeholder_normalize"
ruleSubfamilyFill == "subfamily_fill_from_family_tribe"
ruleEpithetOnlyFix == "species_epithet_only_fix"
ruleGenusFromResolved == "genus_from_resolved_species"
ruleGenusInferred == "genus_inferred_from_species"
ruleBinCanonicalAdopt == "bin_canonical_species_adopt"
ruleGenusSpeciesMismatchDemote == "genus_species_mismatch_demote"
ruleOpenToBinProvisional == "open_or_empty_to_bin_provisional"
ruleProvisionalDroppedNoBin == "provisional_dropped_missing_bin"

\* The rule names in the order of sort.Strings.
ruleOrder ==
  <<ruleBinCanonicalAdopt, ruleGenusFromResolved, ruleGenusInferred,
    ruleGenusSpeciesMismatchDemote, ruleOpenToBinProvisional,
    rulePlaceholderNormalize, ruleProvisionalDroppedNoBin,
    ruleEpithetOnlyFix, ruleSubfamilyFill>>

Rules == Range(ruleOrder)

\* Variant of sortedRuleSet: the rules in descending order.
sortedRuleSetDescending(ruleSet) ==
  LET up == SelectSeq(ruleOrder, LAMBDA r : r \in ruleSet) IN
  [k \in 1..Len(up) |-> up[Len(up) + 1 - k]]

sortedRuleSet(ruleSet) == SelectSeq(ruleOrder, LAMBDA r : r \in ruleSet)

noCurationStats ==
  [RowsTotal |-> 0, RowsChanged |-> 0, rules |-> [r \in Rules |-> 0]]

addRules(s, ruleSet) ==
  [s EXCEPT !.rules = [r \in Rules |-> IF r \in ruleSet THEN @[r] + 1 ELSE @[r]]]

rankFields ==
  {"Kingdom", "Phylum", "Class", "Order", "Family", "Subfamily", "Tribe",
   "Genus", "Species"}

curatedFields == rankFields \cup {"BinURI"}

\* buildBinDecisions; orders gives, for every BIN, the order in which
\* Resolve ranges over its species.
buildBinDecisions(cs, orders) ==
  LET resolution == [bin \in DOMAIN cs |-> Resolve(cs, bin, orders[bin])]
      info == [bin \in DOMAIN cs |-> bioscanParseSpecies(resolution[bin].Canonical)]
      kept == {bin \in DOMAIN cs :
                 /\ resolution[bin].Accepted
                 /\ info[bin].Kind = bioscanSpeciesResolved
                 /\ info[bin].Canonical # <<>>}
  IN  [binCanonical |-> [bin \in kept |-> info[bin]],
       binsObserved |-> Cardinality(DOMAIN cs),
       binsCanonical |-> Cardinality(kept),
       binsConflicted |->
         Cardinality({bin \in DOMAIN cs :
                        ~resolution[bin].Accepted /\ resolution[bin].Conflict})]

noBins == [binsObserved |-> 0, binsCanonical |-> 0, binsConflicted |-> 0]

canonicalForBin(decisions, binURI) ==
  LET bin == bioscanNormalizeLabel(binURI) IN
  IF bin = <<>> \/ bin \notin DOMAIN decisions
    THEN [ok |-> FALSE, info |-> speciesInfo("", <<>>, <<>>, <<>>, <<>>)]
    ELSE [ok |-> TRUE, info |-> decisions[bin]]

\* Variant of curateResolved: a genus that disagrees with the species is
\* replaced by the genus of the species.
curateResolvedTakesSpeciesGenus(genus, binURI, info, bin) ==
  IF genus = <<>>
    THEN [genus |-> info.Genus, species |-> info.Canonical,
          rules |-> {ruleGenusFromResolved}]
  ELSE IF EqualFold(genus, info.Genus)
    THEN [genus |-> info.Genus, species |-> info.Canonical, rules |-> {}]
  ELSE IF bin.ok /\ EqualFold(genus, bin.info.Genus)
    THEN [genus |-> bin.info.Genus, species |-> bin.info.Canonical,
          rules |-> {ruleBinCanonicalAdopt}]
  ELSE [genus |-> info.Genus, species |-> info.Canonical,
        rules |-> {ruleGenusSpeciesMismatchDemote}]

\* The case bioscanSpeciesResolved of the switch of Curate: the genus, the
\* species and the rules it adds.
curateResolved(genus, binURI, info, bin) ==
  IF genus = <<>>
    THEN [genus |-> info.Genus, species |-> info.Canonical,
          rules |-> {ruleGenusFromResolved}]
  ELSE IF EqualFold(genus, info.Genus)
    THEN [genus |-> info.Genus, species |-> info.Canonical, rules |-> {}]
  ELSE IF bin.ok /\ EqualFold(genus, bin.info.Genus)
    THEN [genus |-> bin.info.Genus, species |-> bin.info.Canonical,
          rules |-> {ruleBinCanonicalAdopt}]
  ELSE [genus |-> genus, species |-> bioscanProvisionalSpecies(genus, binURI),
        rules |-> {ruleGenusSpeciesMismatchDemote}]

\* Variant of curateOpen: adopting the BIN canonical species keeps the genus
\* of the record.
curateOpenKeepsGenus(genus, binURI, info, bin) ==
  LET inferred == IF genus = <<>> THEN bioscanInferGenus(info.Normalized) ELSE genus
      r == IF genus = <<>> /\ inferred # <<>> THEN {ruleGenusInferred} ELSE {}
  IN  IF bin.ok /\ (inferred = <<>> \/ EqualFold(inferred, bin.info.Genus))
        THEN [genus |-> inferred, species |-> bin.info.Canonical,
              rules |-> r \cup {ruleBinCanonicalAdopt}]
        ELSE [genus |-> inferred,
              species |-> bioscanProvisionalSpecies(inferred, binURI),
              rules |-> r \cup {ruleOpenToBinProvisional}]

\* The case bioscanSpeciesOpen, bioscanSpeciesEmpty of the switch.
curateOpen(genus, binURI, info, bin) ==
  LET inferred == IF genus = <<>> THEN bioscanInferGenus(info.Normalized) ELSE genus
      r == IF genus = <<>> /\ inferred # <<>> THEN {ruleGenusInferred} ELSE {}
  IN  IF bin.ok /\ (inferred = <<>> \/ EqualFold(inferred, bin.info.Genus))
        THEN [genus |-> bin.info.Genus, species |-> bin.info.Canonical,
              rules |-> r \cup {ruleBinCanonicalAdopt}]
        ELSE [genus |-> inferred,
              species |-> bioscanProvisionalSpecies(inferred, binURI),
              rules |-> r \cup {ruleOpenToBinProvisional}]

\* The switch of Curate on the kind of the species.
curateSwitch(genus, species, binURI, info, bin) ==
  IF info.Kind = bioscanSpeciesResolved
    THEN curateResolved(genus, binURI, info, bin)
  ELSE IF info.Kind \in {bioscanSpeciesOpen, bioscanSpeciesEmpty}
    THEN curateOpen(genus, binURI, info, bin)
  ELSE [genus |-> genus, species |-> bioscanProvisionalSpecies(genus, binURI),
        rules |-> {ruleOpenToBinProvisional}]

\* Variant of normalizedRecord: the subfamily is not normalised before the
\* subfamily fill looks at it.
normalizedRecordButSubfamily(original) ==
  [f \in DOMAIN original |->
     IF f \in curatedFields \ {"Subfamily"}
       THEN bioscanNormalizeLabel(original[f])
       ELSE original[f]]

\* The placeholder normalisation at the head of Curate.
normalizedRecord(original) ==
  [f \in DOMAIN original |->
     IF f \in curatedFields THEN bioscanNormalizeLabel(original[f])
     ELSE original[f]]

\* The species after the epithet-only fix of Curate, and whether it applies.
epithetOnly(n) == n.Genus # <<>> /\ bioscanIsEpithetToken(n.Species)

epithetFixed(n) ==
  IF epithetOnly(n) THEN n.Genus \o toLower(n.Species) ELSE n.Species

\* The subfamily after the subfamily fill of Curate, and whether it applies.
subfamilyHole(n) == n.Family # <<>> /\ n.Tribe # <<>> /\ n.Subfamily = <<>>

subfamilyFilled(n) ==
  IF subfamilyHole(n) THEN n.Family \o <<"subfam.", "incertae", "sedis">>
  ELSE n.Subfamily

\* Curate on one record: the curated record, the rules that fired and
\* whether the record changed.
Curate(original, decisions) ==
  LET n == normalizedRecord(original)
      r0 == IF n # original THEN {rulePlaceholderNormalize} ELSE {}
      subfamily == subfamilyFilled(n)
      r1 == IF subfamilyHole(n) THEN r0 \cup {ruleSubfamilyFill} ELSE r0
      species == epithetFixed(n)
      r2 == IF epithetOnly(n) THEN r1 \cup {ruleEpithetOnlyFix} ELSE r1
      d == curateSwitch(n.Genus, species, n.BinURI, bioscanParseSpecies(species),
                        canonicalForBin(decisions, n.BinURI))
      r3 == r2 \cup d.rules
      dropped == /\ r3 \cap {ruleOpenToBinProvisional, ruleGenusSpeciesMismatchDemote} # {}
                 /\ d.species = <<>>
      rec == [n EXCEPT !.Subfamily = subfamily, !.Genus = d.genus,
                       !.Species = d.species]
  IN  [rec |-> rec,
       ruleSet |-> IF dropped THEN r3 \cup {ruleProvisionalDroppedNoBin} ELSE r3,
       changed |-> rec # original]

\* writeAuditRow: the line it writes (the values hold no tab or line break
\* for auditField to replace).
auditRow(before, after, ruleSet) ==
  [processid |-> after.ProcessID, bin_uri |-> after.BinURI,
   genus_before |-> before.Genus, species_before |-> before.Species,
   subfamily_before |-> before.Subfamily, genus_after |-> after.Genus,
   species_after |-> after.Species, subfamily_after |-> after.Subfamily,
   rules |-> sortedRuleSet(ruleSet)]

\* ------------------------------------------------------- buildTaxonkit
extractCurationProtocolNone == "none"
extractCurationProtocolBioscan5M == "bioscan-5m"

\* cfg.Protocol after normalized and validate.
VARIABLE protocol

enabled == protocol # extractCurationProtocolNone

\* normalize of the extract command, whose source is not part of the
\* repository snapshot: every candidate trims the surrounding whitespace;
\* candidate "none" also empties the literal None.
NormalizeKinds == {"trim", "none"}

normalize(value, kind) ==
  LET t == TrimSpace(value) IN
  IF kind = "none" /\ t = <<"None">> THEN <<>> ELSE t

\* The record buildTaxonkit builds from one row of the input.
taxonRecord(row, kind) ==
  [f \in DOMAIN row |->
     IF f \in rankFields THEN normalize(row[f], kind) ELSE row[f]]

\* Variant of provisionalSuffix: the process id is the fallback suffix
\* under every protocol.
provisionalSuffixProcessID(record) ==
  IF record.Genus # <<>> /\ record.Species = <<>>
    THEN LET suffix == IF record.BinURI = <<>>
                         THEN <<ToString(record.ProcessID)>>
                         ELSE record.BinURI
         IN  [record EXCEPT !.Species = record.Genus \o <<"sp.">> \o suffix]
    ELSE record

\* What buildTaxonkit does to the record after Curate, before writing it.
provisionalSuffix(record) ==
  IF record.Genus # <<>> /\ record.Species = <<>>
    THEN LET suffix == IF record.BinURI = <<>> /\ ~enabled
                         THEN <<ToString(record.ProcessID)>>
                         ELSE record.BinURI
         IN  IF suffix # <<>>
               THEN [record EXCEPT !.Species = record.Genus \o <<"sp.">> \o suffix]
               ELSE record
    ELSE record

\* noopExtractCurator.Curate leaves the record as it is.
noopCurate(record) == [rec |-> record, ruleSet |-> {}, changed |-> FALSE]

\* The whole of prime's scan: Observe on every row, in file order.
RECURSIVE observeRows(_, _, _)
observeRows(cs, rs, i) ==
  IF i > Len(rs) THEN cs
  ELSE observeRows(
         Observe(cs, bioscanNormalizeLabel(rs[i].BinURI),
                 bioscanNormalizeLabel(rs[i].Genus),
                 bioscanNormalizeLabel(rs[i].Species)),
         rs, i + 1)

\* ------------------------------------------------------------------ state
VARIABLES
  input,       \* the FASTA file: a sequence of [id, seq]
  tsv,         \* the taxonkit label table: a sequence of [pid, species]
  pc,          \* position of splitOne
  fastaIDs,    \* result of collectFastaIDs
  labels,      \* process id -> label (loadProcessLabelMap)
  invalidIDs,  \* process ids without a usable label
  plan,        \* splitPlan: seqBucket, conflicted, invalidIDs
  stats,       \* splitStats
  files,       \* bucket -> process ids written to its FASTA, in order
  inputRows,     \* the input TSV of extract: a sequence of rows
  normalizeKind, \* which candidate of normalize the build has
  auditPath,     \* cfg.AuditPath
  cpc,           \* position of buildTaxonkit
  primed,        \* rows read by prime's scanner
  counts,        \* resolver.counts
  binCanonical,  \* curator.binCanonical
  bins,          \* binsObserved, binsCanonical, binsConflicted
  curated,       \* rows read by buildTaxonkit's scanner
  output,        \* the records written to the output
  cstats,        \* curator.stats
  audit,         \* the audit file: its writer, header and lines
  report         \* the report written by Close

VARIABLES
  seenTrainIDs,     \* process ids written to seen_train
  pidToTaxid,       \* the taxid map: process id -> taxid
  dump,             \* dump.nodes: taxid -> node
  ppc,              \* position of pruneTaxdumpForSeenTrain
  pending,          \* process ids its loop has not reached yet
  keep,             \* the taxids to keep
  seenTrainTaxids,  \* process id -> taxid, for the pruned taxid map
  prunedNodes,      \* the pruned nodes.dmp
  prunedNames,      \* the pruned names.dmp
  prunedTaxidMap    \* the pruned taxid.map

VARIABLES
  speciesLabel,     \* the species label handed to the classifier
  infos             \* the bioscanSpeciesInfo of each pass over the label

VARIABLES
  inputFile,        \* the input TSV on disk: whether empty, and its header
  curateProtocol,   \* -curate-protocol
  curateAudit,      \* -curate-audit
  force,            \* -force
  outputFile,       \* the output TSV on disk: absent, partial or complete
  auditFile,        \* the audit TSV on disk: absent, partial or complete
  rpc,              \* position of runExtract
  runs              \* the runs of the command started so far

splitVars == <<input, tsv, pc, fastaIDs, labels, invalidIDs, plan, stats, files>>

curateVars ==
  <<protocol, inputRows, normalizeKind, auditPath, cpc, primed, counts,
    binCanonical, bins, curated, output, cstats, audit, report>>

pruneVars ==
  <<seenTrainIDs, pidToTaxid, dump, ppc, pending, keep, seenTrainTaxids,
    prunedNodes, prunedNames, prunedTaxidMap>>

classifyVars == <<speciesLabel, infos>>

runVars == <<inputFile, curateProtocol, curateAudit, force, outputFile, auditFile, rpc, runs>>

vars == <<splitVars, curateVars, pruneVars, classifyVars, runVars>>

\* The extract command has not been run.
runIdle ==
  /\ inputFile = [empty |-> TRUE, header |-> {}]
  /\ curateProtocol = "none"
  /\ curateAudit = ""
  /\ force = FALSE
  /\ outputFile = "absent"
  /\ auditFile = "absent"
  /\ rpc = "idle"
  /\ runs = 0

\* No label is being classified.
classifyIdle ==
  /\ speciesLabel = <<>>
  /\ infos = <<>>

\* pruneTaxdumpForSeenTrain is not running.
pruneIdle ==
  /\ seenTrainIDs = {}
  /\ pidToTaxid = EmptyMap
  /\ dump = EmptyMap
  /\ ppc = "idle"
  /\ pending = {}
  /\ keep = {}
  /\ seenTrainTaxids = EmptyMap
  /\ prunedNodes = <<>>
  /\ prunedNames = <<>>
  /\ prunedTaxidMap = <<>>

noAudit == [writer |-> FALSE, header |-> FALSE, lines |-> <<>>]

noReport == [written |-> FALSE, BinSummary |-> noBins, Stats |-> noCurationStats]

\* The extract command is not running.
curateIdle ==
  /\ protocol = extractCurationProtocolNone
  /\ inputRows = <<>>
  /\ normalizeKind = "trim"
  /\ auditPath = ""
  /\ cpc = "idle"
  /\ primed = 0
  /\ counts = EmptyMap
  /\ binCanonical = EmptyMap
  /\ bins = noBins
  /\ curated = 0
  /\ output = <<>>
  /\ cstats = noCurationStats
  /\ audit = noAudit
  /\ report = noReport


\* --------------------------------------------------------------- inputs
\* A record of the input is described by its sequence and by what the label
\* table holds for its process id: a label, 0 for a row with an empty
\* species, -1 for no row at all.
NoRow == -1
OtherKinds == (Labels \ {MainLabel}) \cup {0, NoRow}
OtherTypes == [seq : Seqs, kind : OtherKinds]

RECURSIVE repeat(_, _)
repeat(x, n) == IF n = 0 THEN <<>> ELSE <<x>> \o repeat(x, n - 1)

RECURSIVE bulkOf(_, _)
bulkOf(c, todo) ==
  IF todo = {} THEN <<>>
  ELSE LET s == CHOOSE x \in todo : \A y \in todo : x <= y
       IN  repeat([seq |-> s, kind |-> MainLabel], c[s]) \o bulkOf(c, todo \ {s})

RECURSIVE sumOver(_, _)
sumOver(c, todo) ==
  IF todo = {} THEN 0
  ELSE LET s == CHOOSE x \in todo : TRUE IN c[s] + sumOver(c, todo \ {s})

typeRank(t) == t.seq * (Cardinality(Labels) + 2) + t.kind + 1

\* The records that do not carry the main label, listed by type.
OtherRuns ==
  {o \in UNION {[1..k -> OtherTypes] : k \in 0..MaxOther} :
     \A i \in 1..(Len(o) - 1) : typeRank(o[i]) <= typeRank(o[i + 1])}

\* An input: up to MaxRecords records of the main label, grouped by
\* sequence, with up to MaxOther other records before or after them.
InputShapes ==
  {IF front THEN others \o bulkOf(c, Seqs) ELSE bulkOf(c, Seqs) \o others :
     front \in BOOLEAN,
     others \in OtherRuns,
     c \in {d \in [Seqs -> 0..MaxRecords] : sumOver(d, Seqs) <= MaxRecords}}

fastaOf(shape) == [i \in 1..Len(shape) |-> [id |-> i, seq |-> shape[i].seq]]

RECURSIVE tsvOf(_, _)
tsvOf(shape, i) ==
  IF i > Len(shape) THEN <<>>
  ELSE IF shape[i].kind = NoRow THEN tsvOf(shape, i + 1)
  ELSE <<[pid |-> i, species |-> shape[i].kind]>> \o tsvOf(shape, i + 1)

noPlan == [seqBucket |-> EmptyMap, conflicted |-> {}, invalidIDs |-> {}]

noStats ==
  [TotalRecords |-> 0, TotalClasses |-> 0, SeenClasses |-> 0,
   UnseenClasses |-> 0, HeldoutClasses |-> 0, counts |-> [b \in Buckets |-> 0]]

SplitInit ==
  /\ \E shape \in InputShapes :
       /\ input = fastaOf(shape)
       /\ tsv = tsvOf(shape, 1)
  /\ pc = "start"
  /\ fastaIDs = {}
  /\ labels = EmptyMap
  /\ invalidIDs = {}
  /\ plan = noPlan
  /\ stats = noStats
  /\ files = [b \in Buckets |-> <<>>]
  /\ curateIdle
  /\ pruneIdle
  /\ classifyIdle
  /\ runIdle

\* ------------------------------------------------------------- splitOne
idsOf(recs) == {recs[i].id : i \in 1..Len(recs)}

\* collectFastaIDs: fails on a duplicate process id and on an empty file.
CollectFastaIDs ==
  /\ pc = "start"
  /\ IF Len(input) = 0 \/ Cardinality(idsOf(input)) # Len(input)
       THEN pc' = "error" /\ UNCHANGED fastaIDs
       ELSE pc' = "ids" /\ fastaIDs' = idsOf(input)
  /\ UNCHANGED <<input, tsv, labels, invalidIDs, plan, stats, files, curateVars, pruneVars, classifyVars, runVars>>

LoadProcessLabelMap ==
  /\ pc = "ids"
  /\ LET r == loadProcessLabelMap(tsv, fastaIDs) IN
       IF r.err
         THEN pc' = "error" /\ UNCHANGED <<labels, invalidIDs>>
         ELSE pc' = "labels" /\ labels' = r.labels /\ invalidIDs' = r.invalid
  /\ UNCHANGED <<input, tsv, fastaIDs, plan, stats, files, curateVars, pruneVars, classifyVars, runVars>>

BuildSplitPlan ==
  /\ pc = "labels"
  /\ LET acc == pass1(input, labels, invalidIDs) IN
       \E order \in Perms(DOMAIN acc.groups) :
         /\ plan' = planOf(acc, order)
         /\ stats' = statsOf(acc, order) @@ [counts |-> stats.counts]
         /\ invalidIDs' = acc.invalid
  /\ pc' = "planned"
  /\ UNCHANGED <<input, tsv, fastaIDs, labels, files, curateVars, pruneVars, classifyVars, runVars>>

WriteSplitFastas ==
  /\ pc = "planned"
  /\ LET out == writeSplitFastas(input, plan, labels) IN
       /\ files' = out.files
       /\ stats' = [stats EXCEPT !.counts = out.counts]
  /\ pc' = "done"
  /\ UNCHANGED <<input, tsv, fastaIDs, labels, invalidIDs, plan, curateVars, pruneVars, classifyVars, runVars>>

SplitNext ==
  \/ CollectFastaIDs
  \/ LoadProcessLabelMap
  \/ BuildSplitPlan
  \/ WriteSplitFastas

SpecSplit == SplitInit /\ [][SplitNext]_vars

\* ------------------------------------------- one label in three groups
\* The sizes of the barcode groups of the label.
ScenarioSizes == {6, 3, 1}

\* The files of the scenario: every record carries the main label, the
\* three sequences have the sizes of ScenarioSizes in some assignment, and
\* the records come in any order.
ScenarioInputs ==
  LET n == 6 + 3 + 1
      sizeOf(f, q) == Cardinality({i \in 1..n : f[i] = q})
  IN  {f \in [1..n -> Seqs] : {sizeOf(f, q) : q \in Seqs} = ScenarioSizes}

ScenarioInit ==
  /\ \E f \in ScenarioInputs :
       /\ input = [i \in DOMAIN f |-> [id |-> i, seq |-> f[i]]]
       /\ tsv = [i \in DOMAIN f |-> [pid |-> i, species |-> MainLabel]]
  /\ pc = "start"
  /\ fastaIDs = {}
  /\ labels = EmptyMap
  /\ invalidIDs = {}
  /\ plan = noPlan
  /\ stats = noStats
  /\ files = [b \in Buckets |-> <<>>]
  /\ curateIdle
  /\ pruneIdle
  /\ classifyIdle
  /\ runIdle

SpecScenario == ScenarioInit /\ [][SplitNext]_vars

\* ------------------------------------------------- inputs of extract
emptyRow ==
  [ProcessID |-> 0, BinURI |-> <<>>, Kingdom |-> <<>>, Phylum |-> <<>>,
   Class |-> <<>>, Order |-> <<>>, Family |-> <<>>, Subfamily |-> <<>>,
   Tribe |-> <<>>, Genus |-> <<>>, Species |-> <<>>]

rowOf(bin, genus, species) ==
  [emptyRow EXCEPT !.BinURI = bin, !.Genus = genus, !.Species = species]

\* The kinds of row the input files are made of.
RowKinds ==
  << [rowOf(<<"BOLD:A">>, <<"Homo">>, <<"Homo", "sapiens">>)
        EXCEPT !.Kingdom = <<"None">>, !.Family = <<"Hominidae">>,
               !.Tribe = <<"Hominini">>],
     rowOf(<<Space, "BOLD:A">>, <<"homo">>, <<"Homo", Space, "Sapiens">>),
     rowOf(<<"BOLD:A">>, <<>>, <<"Homo", "erectus">>),
     rowOf(<<"BOLD:A">>, <<"Homo">>, <<"Homo", "habilis">>),
     rowOf(<<"BOLD:A">>, <<"Pan">>, <<"Homo", "sapiens">>),
     rowOf(<<"BOLD:A">>, <<"Homo">>, <<"Homo", "sp.">>),
     rowOf(<<"BOLD:B">>, <<>>, <<"None">>),
     rowOf(<<"BOLD:B">>, <<"Pan">>, <<"Pan", "sapiens">>),
     rowOf(<<>>, <<"Homo">>, <<"sapiens">>) >>

\* Input files: at most MaxRows inputRows, the kinds in the order of RowKinds;
\* the process id of a row is its line number.
RECURSIVE runsUpTo(_)
runsUpTo(n) ==
  IF n = 0 THEN {<<>>}
  ELSE LET shorter == runsUpTo(n - 1) IN
       shorter \cup
         {Append(ks, k) : <<ks, k>> \in
            {<<r, j>> \in {x \in shorter : Len(x) = n - 1} \X DOMAIN RowKinds :
               r = <<>> \/ r[Len(r)] <= j}}

RowRuns == runsUpTo(MaxRows)

rowsOf(ks) == [i \in DOMAIN ks |-> [RowKinds[ks[i]] EXCEPT !.ProcessID = i]]

splitIdle ==
  /\ input = <<>>
  /\ tsv = <<>>
  /\ pc = "idle"
  /\ fastaIDs = {}
  /\ labels = EmptyMap
  /\ invalidIDs = {}
  /\ plan = noPlan
  /\ stats = noStats
  /\ files = [b \in Buckets |-> <<>>]

CurateInit ==
  /\ protocol = extractCurationProtocolBioscan5M
  /\ \E ks \in RowRuns : inputRows = rowsOf(ks)
  /\ normalizeKind \in NormalizeKinds
  /\ auditPath \in {"", "audit.tsv"}
  /\ cpc = "start"
  /\ primed = 0
  /\ counts = EmptyMap
  /\ binCanonical = EmptyMap
  /\ bins = noBins
  /\ curated = 0
  /\ output = <<>>
  /\ cstats = noCurationStats
  /\ audit = noAudit
  /\ report = noReport
  /\ splitIdle
  /\ pruneIdle
  /\ classifyIdle
  /\ runIdle

\* ------------------------------------------------------- buildTaxonkit
\* newExtractBioscan5MCurator up to the call of prime: a fresh resolver
\* and openAudit.
NewExtractBioscan5MCurator ==
  /\ protocol = extractCurationProtocolBioscan5M
  /\ cpc = "start"
  /\ cpc' = "prime"
  /\ counts' = EmptyMap
  /\ binCanonical' = EmptyMap
  /\ audit' = IF auditPath = "" THEN audit
              ELSE [writer |-> TRUE, header |-> TRUE, lines |-> <<>>]
  /\ UNCHANGED <<protocol, inputRows, normalizeKind, auditPath, primed, bins, curated, output,
                 cstats, report, splitVars, pruneVars, classifyVars, runVars>>

\* Variant of primeDone: prime stops scanning after its first row.
primeDoneEarly == primed >= 1 \/ primed = Len(inputRows)

\* prime's scanner has no row left.
primeDone == primed = Len(inputRows)

\* One iteration of prime's scan: Observe on the next row.
PrimeObserve ==
  /\ cpc = "prime"
  /\ ~primeDone
  /\ LET row == inputRows[primed + 1] IN
       counts' = Observe(counts, bioscanNormalizeLabel(row.BinURI),
                         bioscanNormalizeLabel(row.Genus),
                         bioscanNormalizeLabel(row.Species))
  /\ primed' = primed + 1
  /\ UNCHANGED <<protocol, inputRows, normalizeKind, auditPath, cpc, binCanonical, bins,
                 curated, output, cstats, audit, report, splitVars, pruneVars, classifyVars, runVars>>

\* For every BIN, an order in which Resolve ranges over its species.
orderChoices(cs) ==
  {o \in [DOMAIN cs -> UNION {Perms(DOMAIN cs[b]) : b \in DOMAIN cs}] :
     \A b \in DOMAIN cs : o[b] \in Perms(DOMAIN cs[b])}

\* The end of prime: buildBinDecisions.
BuildBinDecisions ==
  /\ cpc = "prime"
  /\ primeDone
  /\ \E orders \in orderChoices(counts) :
       LET d == buildBinDecisions(counts, orders) IN
         /\ binCanonical' = d.binCanonical
         /\ bins' = [binsObserved |-> d.binsObserved,
                     binsCanonical |-> d.binsCanonical,
                     binsConflicted |-> d.binsConflicted]
  /\ cpc' = "curate"
  /\ UNCHANGED <<protocol, inputRows, normalizeKind, auditPath, primed, counts, curated, output,
                 cstats, audit, report, splitVars, pruneVars, classifyVars, runVars>>

\* One iteration of buildTaxonkit's scan: the record of the next row is
\* curated, given its provisional species and written.
CurateRow ==
  /\ cpc = "curate"
  /\ curated < Len(inputRows)
  /\ LET record == taxonRecord(inputRows[curated + 1], normalizeKind)
         c == IF enabled THEN Curate(record, binCanonical)
              ELSE noopCurate(record)
     IN  /\ output' = Append(output, provisionalSuffix(c.rec))
         /\ cstats' = IF enabled
                        THEN addRules(
                               [cstats EXCEPT
                                  !.RowsTotal = @ + 1,
                                  !.RowsChanged = IF c.changed THEN @ + 1 ELSE @],
                               c.ruleSet)
                        ELSE cstats
         /\ audit' = IF audit.writer /\ c.changed
                       THEN [audit EXCEPT !.lines =
                               Append(@, auditRow(record, c.rec, c.ruleSet))]
                       ELSE audit
  /\ curated' = curated + 1
  /\ UNCHANGED <<protocol, inputRows, normalizeKind, auditPath, cpc, primed, counts,
                 binCanonical, bins, report, splitVars, pruneVars, classifyVars, runVars>>

\* curator.Close at the end of the input: writeReport and closeAudit.
Close ==
  /\ cpc = "curate"
  /\ curated = Len(inputRows)
  /\ report' = IF enabled
                 THEN [written |-> TRUE, BinSummary |-> bins, Stats |-> cstats]
                 ELSE report
  /\ audit' = [audit EXCEPT !.writer = FALSE]
  /\ cpc' = "closed"
  /\ UNCHANGED <<protocol, inputRows, normalizeKind, auditPath, primed, counts, binCanonical,
                 bins, curated, output, cstats, splitVars, pruneVars, classifyVars, runVars>>

CurateNext ==
  \/ NewExtractBioscan5MCurator
  \/ PrimeObserve
  \/ BuildBinDecisions
  \/ CurateRow
  \/ Close

SpecCurate == CurateInit /\ [][CurateNext]_vars

\* ------------------------------------- extract under either protocol
\* newExtractCurator under protocol none: the curator that does nothing;
\* buildTaxonkit goes on to its scan.
NewNoopExtractCurator ==
  /\ protocol = extractCurationProtocolNone
  /\ cpc = "start"
  /\ cpc' = "curate"
  /\ UNCHANGED <<protocol, inputRows, normalizeKind, auditPath, primed, counts,
                 binCanonical, bins, curated, output, cstats, audit, report,
                 splitVars, pruneVars, classifyVars, runVars>>

\* The kinds of row of the files that exercise the rules of Curate one by
\* one.
CaseKinds ==
  << [rowOf(<<"BOLD:B">>, <<"Pan">>, <<"Pan", "sapiens">>)
        EXCEPT !.Family = <<"Hominidae">>, !.Subfamily = <<"None">>,
               !.Tribe = <<"Hominini">>],
     rowOf(<<"BOLD:B">>, <<>>, <<"None">>),
     rowOf(<<"BOLD:B">>, <<"Pan">>, <<"Pan", "sp.">>),
     rowOf(<<"BOLD:B">>, <<"pan">>, <<>>),
     rowOf(<<"BOLD:B">>, <<"Homo">>, <<"Homo", "sp.">>),
     rowOf(<<"BOLD:B">>, <<>>, <<"Homo", "sp.">>),
     rowOf(<<"BOLD:B">>, <<>>, <<"Pan", "sp.">>),
     rowOf(<<"BOLD:B">>, <<"Pan">>, <<"Homo", "sapiens">>),
     rowOf(<<"BOLD:B">>, <<"Homo">>, <<"Pan", "sapiens">>),
     rowOf(<<>>, <<"Pan">>, <<"Homo", "sapiens">>),
     rowOf(<<>>, <<"Homo">>, <<>>),
     [rowOf(<<>>, <<"Homo">>, <<Space, "sapiens">>)
        EXCEPT !.Family = <<"Hominidae">>, !.Subfamily = <<"None">>,
               !.Tribe = <<"Hominini">>],
     rowOf(<<"BOLD:B">>, <<"Homo">>, <<"sp">>),
     rowOf(<<"BOLD:B">>, <<"homo">>, <<"sapiens">>),
     rowOf(<<"BOLD:B">>, <<"Homo">>, <<"Homo", "Sapiens">>) >>

\* Files of at most MaxCaseRows rows, the kinds in the order of CaseKinds.
RECURSIVE caseRunsUpTo(_)
caseRunsUpTo(n) ==
  IF n = 0 THEN {<<>>}
  ELSE LET shorter == caseRunsUpTo(n - 1) IN
       shorter \cup
         {Append(ks, k) : <<ks, k>> \in
            {<<r, j>> \in {x \in shorter : Len(x) = n - 1} \X DOMAIN CaseKinds :
               r = <<>> \/ r[Len(r)] <= j}}

caseRowsOf(ks) == [i \in DOMAIN ks |-> [CaseKinds[ks[i]] EXCEPT !.ProcessID = i]]

ExtractInit ==
  /\ protocol \in {extractCurationProtocolNone, extractCurationProtocolBioscan5M}
  /\ \E ks \in caseRunsUpTo(MaxCaseRows) : inputRows = caseRowsOf(ks)
  /\ normalizeKind \in NormalizeKinds
  /\ auditPath \in {"", "audit.tsv"}
  /\ cpc = "start"
  /\ primed = 0
  /\ counts = EmptyMap
  /\ binCanonical = EmptyMap
  /\ bins = noBins
  /\ curated = 0
  /\ output = <<>>
  /\ cstats = noCurationStats
  /\ audit = noAudit
  /\ report = noReport
  /\ splitIdle
  /\ pruneIdle
  /\ classifyIdle
  /\ runIdle

ExtractNext ==
  \/ NewNoopExtractCurator
  \/ NewExtractBioscan5MCurator
  \/ PrimeObserve
  \/ BuildBinDecisions
  \/ CurateRow
  \/ Close

SpecExtract == ExtractInit /\ [][ExtractNext]_vars

\* ======================================================================
\* The taxonomy pruner.
\* ======================================================================
\* The bound on the hops of one walk up the parent chain.
WalkLimit == 128

\* The taxid the walk moves to from id, 0 when it stops there: at an id
\* without a node and at a root (its own parent, or a parent <= 0).
parentStep(nodes, id) ==
  IF id \notin DOMAIN nodes THEN 0
  ELSE IF nodes[id].parent = id \/ nodes[id].parent <= 0 THEN 0
  ELSE nodes[id].parent

\* Variant of hops: the walk does not look for the ids it has added itself.
RECURSIVE hopsForgetful(_, _, _, _)
hopsForgetful(nodes, kept, cur, n) ==
  IF n = 0 \/ cur <= 0 \/ cur \in kept THEN <<>>
  ELSE IF n = 1 THEN <<cur>>
  ELSE LET half == n \div 2
           first == hopsForgetful(nodes, kept, cur, half)
       IN  IF Len(first) < half THEN first
           ELSE first \o hopsForgetful(nodes, kept,
                                       parentStep(nodes, first[half]), n - half)

\* The taxids the inner loop of pruneTaxdumpForSeenTrain adds in at most n
\* hops from cur, in the order it adds them: it stops in front of an id
\* <= 0 and of an id already kept, the ids it has added itself included.
\* (The halves keep the evaluation shallow.)
RECURSIVE hops(_, _, _, _)
hops(nodes, kept, cur, n) ==
  IF n = 0 \/ cur <= 0 \/ cur \in kept THEN <<>>
  ELSE IF n = 1 THEN <<cur>>
  ELSE LET half == n \div 2
           first == hops(nodes, kept, cur, half)
       IN  IF Len(first) < half THEN first
           ELSE first \o hops(nodes, kept \cup Range(first),
                              parentStep(nodes, first[half]), n - half)

\* Variant of walk: the walk stops at the first parent it meets.
walkOneHop(nodes, kept, cur) == kept \cup Range(hops(nodes, kept, cur, 2))

\* The inner loop of pruneTaxdumpForSeenTrain: from cur up the parent
\* chain, adding what it visits to kept.
walk(nodes, kept, cur) == kept \cup Range(hops(nodes, kept, cur, WalkLimit))

\* sortedIntSet: the values in ascending order.
sortedIntSet(values) ==
  [k \in 1..Cardinality(values) |->
     CHOOSE x \in values : Cardinality({y \in values : y < x}) = k - 1]

\* writePrunedNodes: a row for every kept id that has a node, ascending.
writePrunedNodes(nodes, kept) ==
  LET ids == SelectSeq(sortedIntSet(kept), LAMBDA id : id \in DOMAIN nodes) IN
  [k \in DOMAIN ids |->
     [id |-> ids[k], parent |-> nodes[ids[k]].parent, rank |-> nodes[ids[k]].rank]]

\* writePrunedNames: a row for every kept id that has a named node.
writePrunedNames(nodes, kept) ==
  LET ids == SelectSeq(sortedIntSet(kept),
                       LAMBDA id : id \in DOMAIN nodes /\ nodes[id].name # "")
  IN  [k \in DOMAIN ids |-> [id |-> ids[k], name |-> nodes[ids[k]].name]]

\* writePrunedTaxidMap: process id and taxid, by process id (the process
\* ids of the model are single digits, sorted as strings or as numbers).
writePrunedTaxidMap(pidTaxid) ==
  LET pids == sortedIntSet(DOMAIN pidTaxid) IN
  [k \in DOMAIN pids |-> [pid |-> pids[k], taxid |-> pidTaxid[pids[k]]]]

\* ------------------------------------------------- inputs of the pruner
PrunePids == {1, 2}

\* A node of the taxonomy; in these inputs a root that is its own parent
\* carries no name.
taxNode(id, parent) ==
  [parent |-> parent, rank |-> "no rank",
   name |-> IF parent = id THEN "" ELSE "taxon"]

\* Rooted forests on the ids 1..MaxNodes: the first node is a root, marked
\* by parent 0 or by itself; every other node is a root with parent 0 or a
\* child of a node with a smaller id.
Forests ==
  {[id \in 1..MaxNodes |-> taxNode(id, f[id])] :
     f \in {g \in [1..MaxNodes -> 0..MaxNodes] :
              /\ g[1] \in {0, 1}
              /\ \A id \in 2..MaxNodes : g[id] < id}}

\* One chain of WalkLimit + 2 nodes, the root at id 1.
DeepChain == [id \in 1..(WalkLimit + 2) |-> taxNode(id, id - 1)]

\* The taxid maps: some of the process ids, each with a taxid.
taxidMaps(taxids) == UNION {[S -> taxids] : S \in SUBSET PrunePids}

PruneInit ==
  /\ \/ /\ dump \in Forests
        /\ pidToTaxid \in taxidMaps(1..MaxNodes)
     \/ /\ dump = DeepChain
        /\ pidToTaxid \in taxidMaps({WalkLimit, WalkLimit + 2})
  /\ seenTrainIDs \in SUBSET PrunePids
  /\ ppc = "start"
  /\ pending = {}
  /\ keep = {}
  /\ seenTrainTaxids = EmptyMap
  /\ prunedNodes = <<>>
  /\ prunedNames = <<>>
  /\ prunedTaxidMap = <<>>
  /\ splitIdle
  /\ curateIdle
  /\ classifyIdle
  /\ runIdle

\* pruneTaxdumpForSeenTrain up to its loop: no seen_train id is an error.
PruneLoad ==
  /\ ppc = "start"
  /\ IF seenTrainIDs = {}
       THEN ppc' = "error" /\ UNCHANGED pending
       ELSE ppc' = "walk" /\ pending' = seenTrainIDs
  /\ keep' = {}
  /\ seenTrainTaxids' = EmptyMap
  /\ UNCHANGED <<seenTrainIDs, pidToTaxid, dump, prunedNodes, prunedNames,
                 prunedTaxidMap, splitVars, curateVars, classifyVars, runVars>>

\* One iteration of the loop over seenTrainIDs, a Go map: a process id
\* without a taxid is an error, otherwise its parent chain is walked.
PruneWalk ==
  /\ ppc = "walk"
  /\ \E pid \in pending :
       IF pid \notin DOMAIN pidToTaxid
         THEN /\ ppc' = "error"
              /\ UNCHANGED <<pending, keep, seenTrainTaxids>>
         ELSE /\ seenTrainTaxids' = Put(seenTrainTaxids, pid, pidToTaxid[pid])
              /\ keep' = walk(dump, keep, pidToTaxid[pid])
              /\ pending' = pending \ {pid}
              /\ UNCHANGED ppc
  /\ UNCHANGED <<seenTrainIDs, pidToTaxid, dump, prunedNodes, prunedNames,
                 prunedTaxidMap, splitVars, curateVars, classifyVars, runVars>>

\* The end of pruneTaxdumpForSeenTrain: the three pruned files.
WritePruned ==
  /\ ppc = "walk"
  /\ pending = {}
  /\ prunedNodes' = writePrunedNodes(dump, keep)
  /\ prunedNames' = writePrunedNames(dump, keep)
  /\ prunedTaxidMap' = writePrunedTaxidMap(seenTrainTaxids)
  /\ ppc' = "done"
  /\ UNCHANGED <<seenTrainIDs, pidToTaxid, dump, pending, keep, seenTrainTaxids,
                 splitVars, curateVars, classifyVars, runVars>>

PruneNext ==
  \/ PruneLoad
  \/ PruneWalk
  \/ WritePruned

SpecPrune == PruneInit /\ [][PruneNext]_vars

\* Taxonomies of any shape on the ids 1..MaxNodes - 1: an id has no node,
\* or a node whose parent is any id, itself, 0 or -1; parent chains may
\* run into a cycle, an id without a node or a parent <= 0.
Taxonomies ==
  UNION {{[id \in S |-> taxNode(id, f[id])] : f \in [S -> -1..(MaxNodes - 1)]} :
           S \in SUBSET (1..(MaxNodes - 1))}

\* The pruner on a taxonomy of any shape, or on the deep chain.
PruneAnyInit ==
  /\ \/ /\ dump \in Taxonomies
        /\ pidToTaxid \in taxidMaps(0..(MaxNodes - 1))
     \/ /\ dump = DeepChain
        /\ pidToTaxid \in taxidMaps({WalkLimit, WalkLimit + 2})
  /\ seenTrainIDs \in SUBSET PrunePids
  /\ ppc = "start"
  /\ pending = {}
  /\ keep = {}
  /\ seenTrainTaxids = EmptyMap
  /\ prunedNodes = <<>>
  /\ prunedNames = <<>>
  /\ prunedTaxidMap = <<>>
  /\ splitIdle
  /\ curateIdle
  /\ classifyIdle
  /\ runIdle

SpecPruneAny == PruneAnyInit /\ [][PruneNext]_vars

\* ======================================================================
\* The species classifier on its own: a label is classified, and the
\* canonical string of a Resolved label is classified again.
\* ======================================================================
MaxLabelLen == 3
MaxPasses == 3

\* The atoms the labels are made of.
LabelAtoms ==
  {Space, "Homo", "homo", "Sapiens", "sapiens", "sp", "sp.", "None", "none",
   "Pan", "erectus", "subfam."}

RECURSIVE labelsUpTo(_)
labelsUpTo(n) ==
  IF n = 0 THEN {<<>>}
  ELSE LET shorter == labelsUpTo(n - 1) IN
       shorter \cup
         {Append(l, a) : <<l, a>> \in {x \in shorter : Len(x) = n - 1} \X LabelAtoms}

ClassifyInit ==
  /\ speciesLabel \in labelsUpTo(MaxLabelLen)
  /\ infos = <<>>
  /\ splitIdle
  /\ curateIdle
  /\ pruneIdle
  /\ runIdle

\* One pass: bioscanParseSpecies on the label, then on the canonical
\* string the pass before returned.
ClassifyPass ==
  /\ Len(infos) < MaxPasses
  /\ IF infos = <<>> THEN TRUE
       ELSE infos[Len(infos)].Kind = bioscanSpeciesResolved
  /\ infos' = Append(infos,
                     bioscanParseSpecies(
                       IF infos = <<>> THEN speciesLabel
                       ELSE infos[Len(infos)].Canonical))
  /\ UNCHANGED <<speciesLabel, splitVars, curateVars, pruneVars, runVars>>

ClassifyNext == ClassifyPass

SpecClassify == ClassifyInit /\ [][ClassifyNext]_vars

\* ---------------------------------------------- a whole run, as a function
RECURSIVE ascending(_)
ascending(S) ==
  IF S = {} THEN <<>>
  ELSE LET m == CHOOSE x \in S : \A y \in S : x <= y
       IN  <<m>> \o ascending(S \ {m})

\* splitOne up to writeSplitFastas on the FASTA recs and the label table
\* rows: the bucket files it writes.
splitFiles(recs, rows) ==
  LET l == loadProcessLabelMap(rows, idsOf(recs))
      acc == pass1(recs, l.labels, l.invalid)
      p == planOf(acc, ascending(DOMAIN acc.groups))
  IN  writeSplitFastas(recs, p, l.labels).files

\* The process ids of each bucket file, and the buckets holding an id.
members(fs) == [b \in Buckets |-> Range(fs[b])]

bucketsOf(m, id) == {b \in Buckets : id \in m[b]}

\* What the label table says about each process id: its label, or 0 when
\* the table has no row for it or a row with an empty species.
labelTable(rows, ids) ==
  [pid \in ids |->
     LET ls == {rows[j].species : j \in {k \in 1..Len(rows) : rows[k].pid = pid}}
     IN  IF ls = {} \/ 0 \in ls THEN 0 ELSE CHOOSE l \in ls : TRUE]

seqsOf(recs) == {recs[i].seq : i \in 1..Len(recs)}

\* The sequences that occur under two different labels.
conflictSeqs(recs, lab) ==
  {s \in seqsOf(recs) :
     \E i, j \in 1..Len(recs) :
       /\ recs[i].seq = s /\ recs[j].seq = s
       /\ lab[recs[i].id] # 0 /\ lab[recs[j].id] # 0
       /\ lab[recs[i].id] # lab[recs[j].id]}

\* The buckets that received a record of the label.
bucketsOfLabel(m, lab, label) ==
  UNION {bucketsOf(m, id) : id \in {x \in DOMAIN lab : lab[x] = label}}

sumBuckets(n) ==
  n[bucketSeenTrain] + n[bucketSeenVal] + n[bucketSeenTest]
  + n[bucketUnseenTest] + n[bucketUnseenVal]
  + n[bucketUnseenKeys] + n[bucketHeldout] + n[bucketPretrain]

occurrences(fs, id) ==
  Cardinality({<<b, i>> \in UNION {{b} \X (1..Len(fs[b])) : b \in Buckets} :
                 fs[b][i] = id})

\* The class of every label that has a non-conflicted group, from the
\* groups of pass 1.
classesOf(recs, labelMap, invalid) ==
  LET groups == pass1(recs, labelMap, invalid).groups
      order == ascending(DOMAIN groups)
  IN  [l \in speciesLabels(groups) |->
         LET u == unitsOf(groups, order, 1, l)
         IN  classOf(l, sumCounts(u, 1), Len(u))]

\* ------------------------------------------------------------------- C1
\* C1: after a run every input record has been written to exactly one of
\* the eight bucket files, and the eight per-bucket counts of the split
\* statistics add up to total_records, the number of input records.
C1_StrictPartition ==
  pc = "done" =>
    /\ \A i \in 1..Len(input) : occurrences(files, input[i].id) = 1
    /\ sumBuckets(stats.counts) = stats.TotalRecords
    /\ stats.TotalRecords = Len(input)
    /\ \A b \in Buckets : stats.counts[b] = Len(files[b])

C1_Witness ==
  /\ pc = "done"
  /\ stats.counts[bucketPretrain] > 0
  /\ stats.counts[bucketSeenTrain] > 0
  /\ stats.counts[bucketSeenTest] > 0
  /\ stats.counts[bucketSeenVal] > 0

\* ------------------------------------------------------------------- C2
\* C2: when two labelled records carry the same sequence but different
\* labels, every record with that sequence is written to pretrain and to no
\* other bucket, wherever the records stand in the input.
C2_ConflictToPretrain ==
  pc = "done" =>
    LET m == members(files)
        bad == conflictSeqs(input, labelTable(tsv, idsOf(input)))
    IN  \A k \in 1..Len(input) :
          input[k].seq \in bad => bucketsOf(m, input[k].id) = {bucketPretrain}

C2_Witness ==
  /\ pc = "done"
  /\ LET lab == labelTable(tsv, idsOf(input))
         bad == conflictSeqs(input, lab)
     IN  \E i, j, k \in 1..Len(input) :
           /\ k \notin {i, j}
           /\ input[i].seq \in bad
           /\ input[j].seq = input[i].seq /\ input[k].seq = input[i].seq
           /\ lab[input[i].id] = MainLabel
           /\ lab[input[j].id] \notin {0, MainLabel}
           /\ {input[i].id, input[j].id, input[k].id} \subseteq Range(files[bucketPretrain])
           /\ j < i /\ k > i

\* ------------------------------------------------------------------- C3
\* C3: any two input records with identical sequences are written to the
\* same bucket, so no sequence occurs in two different splits.
C3_SameSequenceSameBucket ==
  pc = "done" =>
    LET m == members(files) IN
    \A i, j \in 1..Len(input) :
      input[i].seq = input[j].seq
        => bucketsOf(m, input[i].id) = bucketsOf(m, input[j].id)

\* ------------------------------------------------------------------- C4
swapAdjacent(recs, i) ==
  [k \in 1..Len(recs) |->
     IF k = i THEN recs[i + 1] ELSE IF k = i + 1 THEN recs[i] ELSE recs[k]]

reversed(recs) == [k \in 1..Len(recs) |-> recs[Len(recs) + 1 - k]]

rotated(recs) == [k \in 1..Len(recs) |-> recs[(k % Len(recs)) + 1]]

\* The input itself, its adjacent transpositions, its reversal and its
\* rotation by one place (transpositions and the rotation generate every
\* permutation).
rearrangements(recs) ==
  {recs, reversed(recs), rotated(recs)}
  \cup {swapAdjacent(recs, i) : i \in 1..(Len(recs) - 1)}

\* C4: the bucket of every record depends only on the set of (process id,
\* sequence, label) triples: a run on a rearranged input file, and a run
\* that iterates the group map in another order, write every record to the
\* bucket this run wrote it to.
C4_OrderIndependent ==
  pc = "done" =>
    LET m == members(files) IN
    \A recs \in rearrangements(input) : members(splitFiles(recs, tsv)) = m

C4_Witness ==
  /\ pc = "done"
  /\ Len(input) >= SeenMinTotal
  /\ stats.counts[bucketSeenTrain] > 0
  /\ stats.counts[bucketPretrain] > 0
  /\ Cardinality(DOMAIN plan.seqBucket) = Cardinality(Seqs)
  /\ input[1].seq # input[2].seq

\* ------------------------------------------------------------------- C5
\* C5: every label classified seen (at least 8 records in at least 2
\* non-conflicted barcode groups) has a record in seen_train and a record
\* in seen_val or seen_test.
C5_SeenInTrainAndEval ==
  pc = "done" =>
    LET m == members(files)
        lab == labelTable(tsv, idsOf(input))
        class == classesOf(input, labels, invalidIDs)
    IN  \A l \in DOMAIN class :
          class[l] = "seen" =>
            /\ bucketSeenTrain \in bucketsOfLabel(m, lab, l)
            /\ bucketsOfLabel(m, lab, l) \cap {bucketSeenVal, bucketSeenTest} # {}

\* ------------------------------------------------------------------- C6
RecordKinds == Labels \cup {0, NoRow}

appendedRows(rows, pid, kind) ==
  IF kind = NoRow THEN rows ELSE Append(rows, [pid |-> pid, species |-> kind])

\* C6: appending a record to the input, with the records, sequences and
\* labels already there unchanged, and running again leaves every earlier
\* record in the bucket it had.
C6_AppendKeepsBuckets ==
  pc = "done" =>
    LET m == members(files) IN
    \A s \in Seqs, kind \in RecordKinds :
      LET pid == Len(input) + 1
          again == members(splitFiles(Append(input, [id |-> pid, seq |-> s]),
                                      appendedRows(tsv, pid, kind)))
      IN  \A id \in idsOf(input) : bucketsOf(again, id) = bucketsOf(m, id)

\* ------------------------------------------------------------------- C7
SeenFamily == {bucketSeenTrain, bucketSeenVal, bucketSeenTest}
UnseenFamily == {bucketUnseenTest, bucketUnseenVal, bucketUnseenKeys}
HeldoutFamily == {bucketHeldout}
Families == {SeenFamily, UnseenFamily, HeldoutFamily}

familyOf(class) ==
  IF class = "seen" THEN SeenFamily
  ELSE IF class = "unseen" THEN UnseenFamily ELSE HeldoutFamily

\* C7 as stated: all records of a label lie in one class family (only
\* seen_* buckets, only unseen buckets, or only other_heldout).
C7_OneFamilyPerLabel ==
  pc = "done" =>
    LET m == members(files)
        lab == labelTable(tsv, idsOf(input))
    IN  \A l \in Labels :
          \E F \in Families : bucketsOfLabel(m, lab, l) \subseteq F

\* C7, amended: the records of a label that are not written to pretrain
\* (pretrain takes the label's records in conflicted groups) all lie in the
\* family of the label's class; a label that is not classified seen has no
\* record in seen_train.
C7_OneFamilyOutsidePretrain ==
  pc = "done" =>
    LET m == members(files)
        lab == labelTable(tsv, idsOf(input))
        class == classesOf(input, labels, invalidIDs)
    IN  \A l \in Labels :
          LET bs == bucketsOfLabel(m, lab, l) IN
          /\ l \in DOMAIN class => bs \subseteq familyOf(class[l]) \cup {bucketPretrain}
          /\ l \notin DOMAIN class => bs \subseteq {bucketPretrain}
          /\ (l \in DOMAIN class /\ class[l] # "seen") => bucketSeenTrain \notin bs

C7_Witness ==
  /\ pc = "done"
  /\ LET m == members(files)
         lab == labelTable(tsv, idsOf(input))
         class == classesOf(input, labels, invalidIDs)
     IN  \E l \in DOMAIN class :
           /\ class[l] = "unseen"
           /\ bucketPretrain \in bucketsOfLabel(m, lab, l)
           /\ Cardinality(bucketsOfLabel(m, lab, l) \cap UnseenFamily) >= 2

\* ---------------------------------------------------- claims on curation
\* The BIN strings Resolve is asked about.
BinInputs == {<<>>, <<"None">>, <<"BOLD:A">>, <<Space, "BOLD:A">>, <<"BOLD:B">>}

CanonicalSpecies == {<<g, e>> : g \in genusShaped, e \in epithetShaped}

\* The species counted for a BIN string, and their total count.
tally(cs, binURI) ==
  LET bin == bioscanNormalizeLabel(binURI) IN
  IF bin \in DOMAIN cs THEN cs[bin] ELSE EmptyMap

RECURSIVE sumTally(_, _)
sumTally(by, S) ==
  IF S = {} THEN 0
  ELSE LET s == CHOOSE x \in S : TRUE IN by[s] + sumTally(by, S \ {s})

totalOf(by) == sumTally(by, DOMAIN by)

strictMajority(by, s) == s \in DOMAIN by /\ 2 * by[s] > totalOf(by)

\* ------------------------------------------------------------------- C8
\* C8: after any sequence of Observe calls, whatever order Resolve ranges
\* over the species in, Resolve(bin) accepts the species s exactly when s is
\* the only species counted for the BIN or the count of s is a strict
\* majority of the BIN's total count.
C8_AcceptedIffSoleOrMajority ==
  \A binURI \in BinInputs :
    \A order \in resolveOrders(counts, binURI) :
      LET by == tally(counts, binURI)
          r == Resolve(counts, binURI, order)
      IN  /\ r.Accepted => r.Canonical \in CanonicalSpecies /\ ~r.Conflict
          /\ \A s \in CanonicalSpecies :
               (r.Accepted /\ r.Canonical = s)
                 <=> (s \in DOMAIN by /\ (DOMAIN by = {s} \/ strictMajority(by, s)))

C8_Witness ==
  /\ primed >= 3
  /\ \E binURI \in BinInputs, s \in CanonicalSpecies :
       LET by == tally(counts, binURI) IN
         /\ Cardinality(DOMAIN by) >= 2
         /\ strictMajority(by, s)
         /\ \A order \in resolveOrders(counts, binURI) :
              Resolve(counts, binURI, order) = accepted(s)
  /\ \E binURI \in BinInputs :
       /\ Cardinality(DOMAIN tally(counts, binURI)) = 1
       /\ \A order \in resolveOrders(counts, binURI) :
            Resolve(counts, binURI, order).Accepted

\* ------------------------------------------------------------------- C9
\* C9: for a BIN with two or more species counted of which none holds a
\* strict majority of the total (a tie at the top included), Resolve
\* returns conflict and accepts no species, whatever order it ranges over
\* the species in.
C9_NoMajorityIsConflict ==
  \A binURI \in BinInputs :
    LET by == tally(counts, binURI) IN
    (Cardinality(DOMAIN by) >= 2 /\ \A s \in DOMAIN by : ~strictMajority(by, s))
      => \A order \in resolveOrders(counts, binURI) :
           Resolve(counts, binURI, order) = conflict

C9_Witness ==
  \E binURI \in BinInputs :
    LET by == tally(counts, binURI) IN
      /\ \E s, t \in DOMAIN by :
           /\ s # t /\ by[s] = by[t]
           /\ \A u \in DOMAIN by : by[u] <= by[s]
      /\ \E u \in DOMAIN by : 2 * by[u] < totalOf(by) /\ by[u] >= 1
      /\ \A order \in resolveOrders(counts, binURI) :
           Resolve(counts, binURI, order) = conflict

\* ------------------------------------------------------------------ C10
\* A whole run of the extract command on the inputRows rs: the records it
\* writes.
curateRun(rs, kind) ==
  LET cs == observeRows(EmptyMap, rs, 1)
      d == buildBinDecisions(cs, CHOOSE o \in orderChoices(cs) : TRUE)
  IN  [i \in DOMAIN rs |->
         provisionalSuffix(Curate(taxonRecord(rs[i], kind), d.binCanonical).rec)]

\* C10: when a curator is created for an input file, every row of the file
\* has been fed to the resolver and the BIN decisions are those of the whole
\* file before the first Curate call; in every state from then on the BIN
\* evidence and the decisions are still those of the whole file, so Curate
\* never modifies them; and the records written are the same for the
\* rearranged file.
C10_PrimingBarrier ==
  /\ curated > 0 => cpc \in {"curate", "closed"}
  /\ cpc \in {"curate", "closed"} =>
       /\ primed = Len(inputRows)
       /\ counts = observeRows(EmptyMap, inputRows, 1)
       /\ \A o \in orderChoices(counts) :
            binCanonical = buildBinDecisions(counts, o).binCanonical
  /\ cpc = "closed" =>
       \A rs \in rearrangements(inputRows) :
         Range(curateRun(rs, normalizeKind)) = Range(output)

C10_Witness ==
  /\ cpc = "closed"
  /\ Len(inputRows) >= 3
  /\ curated = Len(inputRows)
  /\ DOMAIN binCanonical # {}
  /\ bins.binsConflicted > 0
  /\ \E i \in 1..Len(output) : output[i].Species # taxonRecord(inputRows[i], normalizeKind).Species
  /\ inputRows[1].BinURI # inputRows[Len(inputRows)].BinURI

\* ------------------------------------------------- claims on the rules
\* The record buildTaxonkit builds from row i, and what Curate makes of it
\* under the BIN decisions of the run.
recordOf(i) == taxonRecord(inputRows[i], normalizeKind)

curationOf(i) == Curate(recordOf(i), binCanonical)

GenusInputs == {<<>>, <<"None">>, <<"Homo">>, <<Space, "Pan">>, <<"homo">>}

provisionalRules == {ruleOpenToBinProvisional, ruleGenusSpeciesMismatchDemote}

\* ------------------------------------------------------------------ C11
\* C11: under bioscan-5m no written species ends in the process id; a
\* record with a genus, an empty species and no BIN is written with an
\* empty species under bioscan-5m and as "<Genus> sp. <processid>" under
\* protocol none; and a provisional label is produced exactly when the genus
\* and the BIN are both non-empty, and is then "<genus> sp. <BIN>".
C11_NoProcessIDSuffix ==
  /\ \A g \in GenusInputs, b \in BinInputs :
       bioscanProvisionalSpecies(g, b) =
         IF bioscanNormalizeLabel(g) # <<>> /\ bioscanNormalizeLabel(b) # <<>>
           THEN bioscanNormalizeLabel(g) \o <<"sp.">> \o bioscanNormalizeLabel(b)
           ELSE <<>>
  /\ \A i \in 1..Len(output) :
       LET record == recordOf(i)
           pid == ToString(record.ProcessID)
           bare == /\ record.Genus # <<>>
                   /\ record.Species = <<>>
                   /\ record.BinURI = <<>>
           written == output[i].Species
       IN  IF enabled
             THEN /\ written # <<>> => written[Len(written)] # pid
                  /\ bare => written = <<>>
                  /\ curationOf(i).ruleSet \cap provisionalRules # {} =>
                       written =
                         IF output[i].Genus # <<>> /\ output[i].BinURI # <<>>
                           THEN output[i].Genus \o <<"sp.">> \o output[i].BinURI
                           ELSE <<>>
             ELSE bare => written = record.Genus \o <<"sp.", pid>>

C11_Witness ==
  /\ enabled
  /\ cpc = "closed"
  /\ \E i, j \in 1..Len(output) :
       /\ recordOf(i).Genus # <<>>
       /\ recordOf(i).Species = <<>>
       /\ recordOf(i).BinURI = <<>>
       /\ output[i].Species = <<>>
       /\ curationOf(j).ruleSet \cap provisionalRules # {}
       /\ output[j].Species = output[j].Genus \o <<"sp.">> \o output[j].BinURI
       /\ output[j].BinURI # <<>>

\* ------------------------------------------------------------------ C12
\* What the switch of Curate sees of row i: the normalised record, the
\* classification of its species and the genus after inference.
switchRecord(i) == normalizedRecord(recordOf(i))

switchInfo(i) == bioscanParseSpecies(epithetFixed(switchRecord(i)))

inferredGenus(i) ==
  IF switchRecord(i).Genus = <<>>
    THEN bioscanInferGenus(switchInfo(i).Normalized)
    ELSE switchRecord(i).Genus

\* The genus of a canonical species.
genusOf(canonical) == <<canonical[1]>>

\* C12: every record written under bioscan-5m whose species Curate
\* classifies Open or Empty, whose BIN the resolver accepts a species for,
\* and whose genus after inference is empty or equals the genus of that
\* species case-insensitively, is written with the BIN canonical species
\* and its genus, and bin_canonical_species_adopt is among its rules.
C12_OpenAdoptsBinCanonical ==
  enabled =>
    \A i \in 1..Len(output) :
      \A order \in resolveOrders(counts, switchRecord(i).BinURI) :
        LET r == Resolve(counts, switchRecord(i).BinURI, order) IN
        ( /\ switchInfo(i).Kind \in {bioscanSpeciesOpen, bioscanSpeciesEmpty}
          /\ r.Accepted
          /\ \/ inferredGenus(i) = <<>>
             \/ EqualFold(inferredGenus(i), genusOf(r.Canonical)) )
        => /\ output[i].Species = r.Canonical
           /\ output[i].Genus = genusOf(r.Canonical)
           /\ ruleBinCanonicalAdopt \in curationOf(i).ruleSet

C12_Witness ==
  /\ enabled
  /\ cpc = "closed"
  /\ \E i \in 1..Len(output) :
       LET r == Resolve(counts, switchRecord(i).BinURI,
                        CHOOSE o \in resolveOrders(counts, switchRecord(i).BinURI) : TRUE)
       IN  /\ switchInfo(i).Kind = bioscanSpeciesEmpty
           /\ r.Accepted
           /\ inferredGenus(i) # <<>>
           /\ inferredGenus(i) # genusOf(r.Canonical)
           /\ output[i].Species = r.Canonical
           /\ output[i].Genus = genusOf(r.Canonical)
           /\ report.Stats.rules[ruleBinCanonicalAdopt] = 1

\* ------------------------------------------------------------------ C13
\* The BIN has evidence for two or more species and none of them holds a
\* strict majority.
conflictedBin(binURI) ==
  LET by == tally(counts, binURI) IN
  /\ Cardinality(DOMAIN by) >= 2
  /\ \A s \in DOMAIN by : ~strictMajority(by, s)

\* C13: for every record written under bioscan-5m whose BIN is conflicted
\* (a tie at the top or no strict majority), bin_canonical_species_adopt is
\* not among its rules; when its species is classified Open or Empty it is
\* written with none of the species counted for the BIN, and with the
\* provisional label "G sp. B" of its genus G and its BIN B when it has a
\* genus.
C13_ConflictedBinNeverAdopted ==
  enabled =>
    \A i \in 1..Len(output) :
      conflictedBin(switchRecord(i).BinURI) =>
        /\ ruleBinCanonicalAdopt \notin curationOf(i).ruleSet
        /\ switchInfo(i).Kind \in {bioscanSpeciesOpen, bioscanSpeciesEmpty} =>
             /\ output[i].Species \notin DOMAIN tally(counts, switchRecord(i).BinURI)
             /\ output[i].Genus = inferredGenus(i)
             /\ inferredGenus(i) # <<>> =>
                  output[i].Species =
                    inferredGenus(i) \o <<"sp.">> \o switchRecord(i).BinURI

C13_Witness ==
  /\ enabled
  /\ cpc = "closed"
  /\ bins.binsConflicted = 1
  /\ report.Stats.rules[ruleBinCanonicalAdopt] = 0
  /\ \E i \in 1..Len(output) :
       /\ conflictedBin(switchRecord(i).BinURI)
       /\ switchInfo(i).Kind = bioscanSpeciesOpen
       /\ output[i].Species = <<"Homo", "sp.", "BOLD:A">>
       /\ \E s, t \in DOMAIN tally(counts, switchRecord(i).BinURI) :
            /\ s # t
            /\ genusOf(s) = output[i].Genus
            /\ genusOf(t) = output[i].Genus

\* ------------------------------------------------------------------ C14
\* Row i has a genus and a Resolved species of another genus.
mismatchRow(i) ==
  /\ switchRecord(i).Genus # <<>>
  /\ switchInfo(i).Kind = bioscanSpeciesResolved
  /\ ~EqualFold(switchRecord(i).Genus, switchInfo(i).Genus)

\* The label "G sp. <BIN>" of row i.
demotedLabel(i) ==
  switchRecord(i).Genus \o <<"sp.">> \o switchRecord(i).BinURI

\* The BIN of row i has an accepted species r of the genus of the row.
binBacksGenus(i, r) ==
  r.Accepted /\ EqualFold(switchRecord(i).Genus, genusOf(r.Canonical))

\* C14 as stated: every record written under bioscan-5m with a genus G and
\* a Resolved species of another genus is written with the BIN canonical
\* species when its BIN has an accepted species of genus G, and otherwise
\* with "G sp. <BIN>" and the rule genus_species_mismatch_demote; the genus
\* written is G, never the genus of the species.
C14_MismatchAdoptsOrDemotes ==
  enabled =>
    \A i \in 1..Len(output) :
      mismatchRow(i) =>
        \A order \in resolveOrders(counts, switchRecord(i).BinURI) :
          LET r == Resolve(counts, switchRecord(i).BinURI, order) IN
          /\ EqualFold(output[i].Genus, switchRecord(i).Genus)
          /\ IF binBacksGenus(i, r)
               THEN /\ output[i].Species = r.Canonical
                    /\ ruleBinCanonicalAdopt \in curationOf(i).ruleSet
               ELSE /\ output[i].Species = demotedLabel(i)
                    /\ ruleGenusSpeciesMismatchDemote \in curationOf(i).ruleSet

\* C14, amended: as above, but a record without a BIN is demoted to an
\* empty species, with provisional_dropped_missing_bin recorded next to
\* genus_species_mismatch_demote; on adoption the genus is written in the
\* spelling of the BIN canonical genus, on demotion it is G unchanged.
C14_MismatchAdoptsOrDemotesWithBin ==
  enabled =>
    \A i \in 1..Len(output) :
      mismatchRow(i) =>
        \A order \in resolveOrders(counts, switchRecord(i).BinURI) :
          LET r == Resolve(counts, switchRecord(i).BinURI, order)
              rules == curationOf(i).ruleSet
          IN
          /\ ~EqualFold(output[i].Genus, switchInfo(i).Genus)
          /\ IF binBacksGenus(i, r)
               THEN /\ output[i].Species = r.Canonical
                    /\ output[i].Genus = genusOf(r.Canonical)
                    /\ ruleBinCanonicalAdopt \in rules
                    /\ ruleGenusSpeciesMismatchDemote \notin rules
               ELSE /\ output[i].Genus = switchRecord(i).Genus
                    /\ ruleGenusSpeciesMismatchDemote \in rules
                    /\ ruleBinCanonicalAdopt \notin rules
                    /\ IF switchRecord(i).BinURI # <<>>
                         THEN /\ output[i].Species = demotedLabel(i)
                              /\ ruleProvisionalDroppedNoBin \notin rules
                         ELSE /\ output[i].Species = <<>>
                              /\ ruleProvisionalDroppedNoBin \in rules

C14_Witness ==
  /\ enabled
  /\ cpc = "closed"
  /\ \E i \in 1..Len(output) :
       LET r == Resolve(counts, switchRecord(i).BinURI,
                        CHOOSE o \in resolveOrders(counts, switchRecord(i).BinURI) : TRUE)
       IN  /\ mismatchRow(i)
           /\ r.Accepted
           /\ ~binBacksGenus(i, r)
           /\ output[i].Species = demotedLabel(i)
           /\ output[i].Genus = <<"Homo">>
           /\ report.Stats.rules[ruleGenusSpeciesMismatchDemote] = 1
           /\ report.Stats.rules[ruleProvisionalDroppedNoBin] = 0

\* ------------------------------------------------------------------ C15
\* After placeholder normalisation row i has a genus and a species that is
\* a single token of lower-case letters.
bareEpithetRow(i) ==
  /\ switchRecord(i).Genus # <<>>
  /\ Len(switchRecord(i).Species) = 1
  /\ switchRecord(i).Species[1] \in epithetShaped

\* Row i has a family and a tribe and its subfield subfamily is empty or a
\* placeholder.
subfamilyHoleRow(i) ==
  /\ switchRecord(i).Family # <<>>
  /\ switchRecord(i).Tribe # <<>>
  /\ bioscanNormalizeLabel(recordOf(i).Subfamily) = <<>>

subfamilyFillOf(i) ==
  /\ output[i].Subfamily =
       switchRecord(i).Family \o <<"subfam.", "incertae", "sedis">>
  /\ ruleSubfamilyFill \in curationOf(i).ruleSet
  /\ recordOf(i).Subfamily # <<>> =>
       rulePlaceholderNormalize \in curationOf(i).ruleSet

\* C15 as stated: every record written under bioscan-5m with a genus G and a
\* species that, after placeholder normalisation, is a single all-lowercase
\* token e is written with species "G e" and has species_epithet_only_fix
\* among its rules; and a subfamily that is empty or a placeholder is, when
\* family and tribe are present, written as "<Family> subfam. incertae
\* sedis".
C15_EpithetOnlyYieldsBinomial ==
  enabled =>
    \A i \in 1..Len(output) :
      /\ bareEpithetRow(i) =>
           /\ output[i].Species = switchRecord(i).Genus \o switchRecord(i).Species
           /\ ruleEpithetOnlyFix \in curationOf(i).ruleSet
      /\ subfamilyHoleRow(i) => subfamilyFillOf(i)

\* C15, amended: the epithet-only fix rewrites the species to "G e" and
\* records species_epithet_only_fix before the species is classified; the
\* record is written with species "G e" exactly when "G e" classifies as
\* Resolved, and otherwise goes the way of an Open label (adoption of the
\* BIN canonical species or the provisional label).  The subfamily part is
\* as stated.
C15_EpithetOnlyFixThenClassify ==
  enabled =>
    \A i \in 1..Len(output) :
      /\ bareEpithetRow(i) =>
           LET label == switchRecord(i).Genus \o switchRecord(i).Species
               rules == curationOf(i).ruleSet
           IN  /\ ruleEpithetOnlyFix \in rules
               /\ switchInfo(i).Normalized = label
               /\ switchInfo(i).Kind \in {bioscanSpeciesResolved, bioscanSpeciesOpen}
               /\ switchInfo(i).Kind = bioscanSpeciesResolved =>
                    /\ output[i].Species = label
                    /\ rules \cap (provisionalRules \cup {ruleBinCanonicalAdopt}) = {}
               /\ switchInfo(i).Kind = bioscanSpeciesOpen =>
                    /\ output[i].Species # label
                    /\ \/ ruleBinCanonicalAdopt \in rules
                       \/ ruleOpenToBinProvisional \in rules
      /\ subfamilyHoleRow(i) => subfamilyFillOf(i)

C15_Witness ==
  /\ enabled
  /\ cpc = "closed"
  /\ normalizeKind = "trim"
  /\ \E i, j \in 1..Len(output) :
       /\ bareEpithetRow(i)
       /\ output[i].Species = <<"Homo", "sapiens">>
       /\ recordOf(i).Subfamily = <<"None">>
       /\ output[i].Subfamily = <<"Hominidae", "subfam.", "incertae", "sedis">>
       /\ bareEpithetRow(j)
       /\ output[j].Species = <<"Homo", "sp.", "BOLD:B">>
  /\ report.Stats.rules[ruleEpithetOnlyFix] = 2
  /\ report.Stats.rules[ruleSubfamilyFill] = 1
  /\ report.Stats.rules[rulePlaceholderNormalize] = 1

\* ------------------------------------------------------------------ C16
\* The taxids of the seen_train records.
trainTaxids == {pidToTaxid[pid] : pid \in seenTrainIDs \cap DOMAIN pidToTaxid}

\* The node id has a parent in the tree: it is not a root.
hasParent(id) ==
  id \in DOMAIN dump /\ dump[id].parent > 0 /\ dump[id].parent # id

\* The ids of the rows of the pruned nodes.dmp.
prunedIDs == {prunedNodes[k].id : k \in DOMAIN prunedNodes}

\* Every kept id is a seen_train taxid or the parent of a kept id: in a
\* forest, a seen_train taxid or an ancestor of one.
onlyAncestors ==
  \A id \in keep \ trainTaxids :
    \E child \in keep : hasParent(child) /\ dump[child].parent = id

closedUnderParent == \A id \in keep : hasParent(id) => dump[id].parent \in keep

\* No seen_train taxid has WalkLimit or more ancestors.
shortChains ==
  \A t \in trainTaxids : Len(hops(dump, {}, t, WalkLimit + 1)) <= WalkLimit

C17_CanonicalIsFixedPoint ==
  /\ \A i \in DOMAIN infos :
       (infos[i].Canonical # <<>>) <=> (infos[i].Kind = bioscanSpeciesResolved)
  /\ \A i \in DOMAIN infos :
       i > 1 =>
         /\ infos[i].Kind = bioscanSpeciesResolved
         /\ infos[i].Canonical = infos[i - 1].Canonical

\* A label of MaxLabelLen atoms has been classified Resolved; its canonical
\* string differs from the label and from its normalised form, the epithet
\* is not the label's last atom, and the canonical string has come back
\* unchanged from every later pass.
C17_Witness ==
  /\ Len(infos) = MaxPasses
  /\ Len(speciesLabel) = MaxLabelLen
  /\ infos[1].Kind = bioscanSpeciesResolved
  /\ infos[1].Canonical # speciesLabel
  /\ infos[1].Canonical # infos[1].Normalized
  /\ infos[1].Epithet # <<speciesLabel[Len(speciesLabel)]>>
  /\ infos[MaxPasses].Canonical = infos[1].Canonical


\* ----------------------------------------------------------------------
\* C18.  In every state of the resolver, for every BIN and every order in
\* which Resolve ranges over the species counted for it, the result of
\* Resolve is never both accepted and conflict; an accepted result carries
\* a non-empty canonical species and a conflict result carries none.
C18_NeverAcceptedAndConflict ==
  \A binURI \in BinInputs :
    \A order \in resolveOrders(counts, binURI) :
      LET r == Resolve(counts, binURI, order) IN
        /\ ~(r.Accepted /\ r.Conflict)
        /\ r.Accepted => r.Canonical # <<>>
        /\ r.Conflict => r.Canonical = <<>>

\* The resolver holds a BIN that resolves accepted, a BIN that resolves
\* conflict and the input names a BIN that resolves as neither.
C18_Witness ==
  /\ primed = Len(inputRows)
  /\ \E binURI \in BinInputs :
       \A order \in resolveOrders(counts, binURI) :
         LET r == Resolve(counts, binURI, order) IN
           r.Accepted /\ ~r.Conflict /\ r.Canonical \in CanonicalSpecies
  /\ \E binURI \in BinInputs :
       /\ Cardinality(DOMAIN tally(counts, binURI)) >= 2
       /\ \A order \in resolveOrders(counts, binURI) :
            LET r == Resolve(counts, binURI, order) IN
              r.Conflict /\ ~r.Accepted /\ r.Canonical = <<>>
  /\ \E binURI \in BinInputs :
       \A order \in resolveOrders(counts, binURI) :
         Resolve(counts, binURI, order) = noResolution


\* ----------------------------------------------------------------------
\* The evidence before the latest Observe of prime's scan.
countsBefore == observeRows(EmptyMap, SubSeq(inputRows, 1, primed - 1), 1)

\* The counter of a BIN and a canonical species, 0 when there is none.
countOf(cs, bin, species) ==
  IF bin \in DOMAIN cs /\ species \in DOMAIN cs[bin] THEN cs[bin][species] ELSE 0

\* Row i is one Observe discards: its BIN is empty once normalised, its
\* species is not classified Resolved, or it has a genus that differs from
\* the genus of its species, letter case aside.
discardedRow(i) ==
  LET bin == bioscanNormalizeLabel(inputRows[i].BinURI)
      g == bioscanNormalizeLabel(inputRows[i].Genus)
      info == bioscanParseSpecies(inputRows[i].Species)
  IN  \/ bin = <<>>
      \/ info.Kind # bioscanSpeciesResolved
      \/ g # <<>> /\ toLower(g) # toLower(info.Genus)

rowsOfBin(binURI) ==
  {i \in 1..primed :
     bioscanNormalizeLabel(inputRows[i].BinURI) = bioscanNormalizeLabel(binURI)}

\* Between the evidence before and after, the counter of bin and canonical
\* has grown by one and nothing else has changed.
oneCounterMore(before, after, bin, canonical) ==
  LET allBins == DOMAIN after \cup DOMAIN before \cup {bin} IN
  /\ countOf(after, bin, canonical) = countOf(before, bin, canonical) + 1
  /\ \A b \in allBins :
       LET was == IF b \in DOMAIN before THEN DOMAIN before[b] ELSE {}
           is == IF b \in DOMAIN after THEN DOMAIN after[b] ELSE {}
       IN  /\ is = IF b = bin THEN was \cup {canonical} ELSE was
           /\ \A s \in is :
                <<b, s>> # <<bin, canonical>> =>
                  countOf(after, b, s) = countOf(before, b, s)
  /\ DOMAIN after = DOMAIN before \cup {bin}

\* C19.  Observe leaves the evidence as it was when the BIN is empty (once
\* normalised), when the species is not classified Resolved, or when a
\* non-empty genus differs from the classified genus, letter case aside;
\* otherwise exactly one counter changes, the one of the BIN and the
\* canonical species, and it grows by one.  A BIN all of whose observations
\* were discarded resolves as neither accepted nor conflict.
C19_ObserveFrame ==
  /\ primed >= 1 =>
       IF discardedRow(primed)
         THEN counts = countsBefore
         ELSE oneCounterMore(
                countsBefore, counts,
                bioscanNormalizeLabel(inputRows[primed].BinURI),
                bioscanParseSpecies(inputRows[primed].Species).Canonical)
  /\ \A binURI \in BinInputs :
       (\A i \in rowsOfBin(binURI) : discardedRow(i)) =>
         \A order \in resolveOrders(counts, binURI) :
           Resolve(counts, binURI, order) = noResolution

\* prime has observed the whole file: the last row, with a BIN, was
\* discarded, a row with a BIN and a Resolved species was discarded for its
\* genus, a row whose genus differs from the genus of its species by letter
\* case only was counted, a counter stands at two or more, and a BIN that
\* was observed with discarded rows only resolves as absent.
C19_Witness ==
  /\ primed = Len(inputRows)
  /\ primed >= 1
  /\ bioscanNormalizeLabel(inputRows[primed].BinURI) # <<>>
  /\ discardedRow(primed)
  /\ counts = countsBefore
  /\ \E i \in 1..primed :
       /\ bioscanNormalizeLabel(inputRows[i].BinURI) # <<>>
       /\ bioscanParseSpecies(inputRows[i].Species).Kind = bioscanSpeciesResolved
       /\ discardedRow(i)
  /\ \E i \in 1..primed :
       /\ ~discardedRow(i)
       /\ inputRows[i].Genus # bioscanParseSpecies(inputRows[i].Species).Genus
       /\ inputRows[i].Genus # <<>>
  /\ \E b \in DOMAIN counts : \E s \in DOMAIN counts[b] : counts[b][s] >= 2
  /\ \E binURI \in BinInputs :
       /\ rowsOfBin(binURI) # {}
       /\ bioscanNormalizeLabel(binURI) # <<>>
       /\ \A i \in rowsOfBin(binURI) : discardedRow(i)
       /\ \A order \in resolveOrders(counts, binURI) :
            Resolve(counts, binURI, order) = noResolution


\* ----------------------------------------------------------------------
\* The first rows of the input, as many as prime has observed, rearranged.
observedIn(p) == [i \in 1..primed |-> inputRows[p[i]]]

\* Species s is a top species of the counts by: none has a higher count
\* and none of the same count comes before it in the order of strings.
topSpecies(by, s) ==
  /\ s \in DOMAIN by
  /\ \A t \in DOMAIN by :
       \/ by[t] < by[s]
       \/ by[t] = by[s] /\ (t = s \/ lexLess(s, t))

\* C20.  Whatever order the observations are made in, the evidence and so
\* the result of Resolve is the same; for every BIN the result of Resolve
\* and the top species Canonical reports are the same for every order of
\* the range over the species counted for the BIN; the top species has the
\* highest count and, among species of that count, comes first in the
\* order of strings; and a species Resolve accepts is the top species.
C20_ResolveOrderIndependent ==
  cpc = "prime" =>
    /\ \A p \in Perms(1..primed) :
         observeRows(EmptyMap, observedIn(p), 1) = counts
    /\ \A binURI \in BinInputs :
         LET orders == resolveOrders(counts, binURI)
             by == tally(counts, binURI)
             first == CHOOSE o \in orders : TRUE
             r == Resolve(counts, binURI, first)
             c == Canonical(counts, binURI, first)
         IN  /\ \A order \in orders :
                  /\ Resolve(counts, binURI, order) = r
                  /\ Canonical(counts, binURI, order) = c
             /\ c.ok <=> DOMAIN by # {}
             /\ c.ok => topSpecies(by, c.species)
             /\ r.Accepted => c.ok /\ r.Canonical = c.species

\* prime has observed three rows or more, not all alike; a BIN has three
\* species or more, two of them with the same count at the top; Canonical
\* reports the one that comes first in the order of strings, which was not
\* the first to be observed, and Resolve reports conflict, in every order.
C20_Witness ==
  /\ cpc = "prime"
  /\ primed >= 3
  /\ \E i, j \in 1..primed : inputRows[i].Species # inputRows[j].Species
  /\ \E binURI \in BinInputs :
       LET by == tally(counts, binURI) IN
         /\ Cardinality(DOMAIN by) >= 3
         /\ \E s, t \in DOMAIN by :
              /\ lexLess(s, t)
              /\ by[s] = by[t]
              /\ \A u \in DOMAIN by : by[u] <= by[s]
              /\ \E i \in 1..primed :
                   /\ bioscanParseSpecies(inputRows[i].Species).Canonical = t
                   /\ \A j \in 1..primed :
                        bioscanParseSpecies(inputRows[j].Species).Canonical = s
                          => i < j
              /\ \A order \in resolveOrders(counts, binURI) :
                   /\ Canonical(counts, binURI, order) = [species |-> s, ok |-> TRUE]
                   /\ Resolve(counts, binURI, order) = conflict

\* ----------------------------------------------------------------------
\* Curate once more on the record Curate made of row i, under the same BIN
\* decisions.
secondPass(i) == Curate(curationOf(i).rec, binCanonical)

\* C21.  With the BIN decisions held fixed, Curate on a record it has
\* already curated leaves the nine rank fields and the BIN field as they
\* are, and reports the record as not changed.
C21_CurateIdempotent ==
  enabled =>
    \A i \in 1..Len(output) :
      /\ \A f \in curatedFields : secondPass(i).rec[f] = curationOf(i).rec[f]
      /\ ~secondPass(i).changed

\* The first pass changed a record under two rules or more; another record
\* adopted the species of its BIN and, with it, a genus in another letter
\* case; the second pass changes neither.
C21_Witness ==
  /\ enabled
  /\ cpc = "closed"
  /\ \E i \in 1..Len(output) :
       /\ curationOf(i).changed
       /\ Cardinality(curationOf(i).ruleSet) >= 2
       /\ ~secondPass(i).changed
  /\ \E i \in 1..Len(output) :
       /\ ruleBinCanonicalAdopt \in curationOf(i).ruleSet
       /\ recordOf(i).Genus # curationOf(i).rec.Genus
       /\ ~secondPass(i).changed

\* ----------------------------------------------------------------------
\* C22.  Every change Curate makes to a record is attributed to a rule: a
\* record that counts as changed has a non-empty rule set, and every row of
\* the audit file lists at least one rule.
C22_ChangeHasRule ==
  enabled =>
    /\ \A i \in 1..Len(output) :
         curationOf(i).changed => curationOf(i).ruleSet # {}
    /\ \A k \in 1..Len(audit.lines) : audit.lines[k].rules # <<>>

\* ----------------------------------------------------------------------
\* C23.  provisional_dropped_missing_bin is among the rules of a record
\* exactly when open_or_empty_to_bin_provisional or
\* genus_species_mismatch_demote fired and the curated species is empty, and
\* every record with that marker has an empty BIN and a non-empty genus
\* after Curate.
C23_DroppedMarkerMeansMissingBin ==
  enabled =>
    \A i \in 1..Len(output) :
      LET c == curationOf(i) IN
        /\ (ruleProvisionalDroppedNoBin \in c.ruleSet)
             <=> (c.ruleSet \cap provisionalRules # {} /\ c.rec.Species = <<>>)
        /\ ruleProvisionalDroppedNoBin \in c.ruleSet =>
             c.rec.BinURI = <<>> /\ c.rec.Genus # <<>>

\* ----------------------------------------------------------------------
\* The sequences of the input in ascending order of their hashes, and the
\* number of records of a sequence.
seqsByHash ==
  CHOOSE p \in Perms(Seqs) :
    \A i, j \in 1..Len(p) : i < j => lessHash(Md5Sum(p[i]), Md5Sum(p[j]))

sizeOfSeq(q) == Cardinality({i \in DOMAIN input : input[i].seq = q})

\* The quotas of a seen label of 10 records.
scenarioQuotas ==
  /\ stats.SeenClasses = 1
  /\ stats.TotalClasses = 1
  /\ seenTargets(Len(input))[1] = [bucket |-> bucketSeenTest, target |-> 2]
  /\ seenTargets(Len(input))[2] = [bucket |-> bucketSeenVal, target |-> 1]

\* C24 as stated.  A label of 10 records in three groups of sizes 6, 3 and
\* 1 is classified seen with the quotas test = 2 and val = 1, and whatever
\* the hash order of the groups, seen_test receives 2 records, seen_val 1
\* and seen_train the remaining 7.
C24_TrainReceivesSeven ==
  pc = "done" =>
    /\ scenarioQuotas
    /\ Len(files[bucketSeenTest]) = 2
    /\ Len(files[bucketSeenVal]) = 1
    /\ Len(files[bucketSeenTrain]) = 7

\* C24, amended.  The label is classified seen with the quotas test = 2 and
\* val = 1, and the buckets receive whole groups in hash order: seen_test
\* the first group, and the second too when the first is the group of size
\* 1; seen_val the next group; seen_train the groups that remain, which is
\* none when the group of size 1 comes first, and never 7 records.
C24_WholeGroupsFillQuotas ==
  pc = "done" =>
    LET n1 == sizeOfSeq(seqsByHash[1])
        n2 == sizeOfSeq(seqsByHash[2])
        n3 == sizeOfSeq(seqsByHash[3])
        test == IF n1 >= 2 THEN n1 ELSE n1 + n2
        val == IF n1 >= 2 THEN n2 ELSE n3
    IN  /\ scenarioQuotas
        /\ Len(files[bucketSeenTest]) = test
        /\ Len(files[bucketSeenVal]) = val
        /\ Len(files[bucketSeenTrain]) = Len(input) - test - val
        /\ Len(files[bucketSeenTrain]) = IF n1 = 1 THEN 0 ELSE n3
        /\ Len(files[bucketSeenTrain]) < 7
        /\ \A b \in Buckets \ {bucketSeenTest, bucketSeenVal, bucketSeenTrain} :
             files[b] = <<>>

\* The run is over; the group of size 1 has the smallest hash and the group
\* of size 6 the next, so seen_test holds 7 records, seen_val 3 and
\* seen_train none.
C24_Witness ==
  /\ pc = "done"
  /\ sizeOfSeq(seqsByHash[1]) = 1
  /\ sizeOfSeq(seqsByHash[2]) = 6
  /\ Len(files[bucketSeenTest]) = 7
  /\ Len(files[bucketSeenVal]) = 3
  /\ files[bucketSeenTrain] = <<>>

\* ----------------------------------------------------------------------
\* The labelled records of a sequence, the non-conflicted barcode groups of
\* a label (as sequences) and the number of records of a set of groups.
labelledOf(q) == {i \in DOMAIN input : input[i].seq = q /\ input[i].id \in DOMAIN labels}

groupsOfLabel(l) ==
  {q \in seqsOf(input) :
     /\ labelledOf(q) # {}
     /\ \A i \in labelledOf(q) : labels[input[i].id] = l}

RECURSIVE recordsIn(_)
recordsIn(G) ==
  IF G = {} THEN 0
  ELSE LET q == CHOOSE x \in G : TRUE
       IN  Cardinality(labelledOf(q)) + recordsIn(G \ {q})

\* The targets of a label that is not heldout, and <<>> for a heldout one.
targetsOfLabel(l) ==
  LET total == recordsIn(groupsOfLabel(l)) IN
  IF isSeenClass(total, Cardinality(groupsOfLabel(l))) THEN seenTargets(total)
  ELSE IF classHashByte(l) < UnseenCutoff THEN unseenTargets(total)
  ELSE <<>>

\* The groups of the label that the plan gives to the k-th target.
takenBy(l, k) ==
  {q \in groupsOfLabel(l) :
     /\ Md5Sum(q) \in DOMAIN plan.seqBucket
     /\ plan.seqBucket[Md5Sum(q)] = targetsOfLabel(l)[k].bucket}

\* C25.  Within a label that is not heldout, whole barcode groups go in
\* ascending hash order to test, then val, then train or keys: every group
\* of the label is in one of the three buckets; a group in an earlier
\* bucket has a smaller hash than a group in a later one; test and val stop
\* taking groups as soon as their record count reaches the quota, so that
\* without its last group each is below its quota, and fall short of the
\* quota only when no group is left for a later bucket.
C25_GroupsFillBucketsInHashOrder ==
  pc \in {"planned", "done"} =>
    \A l \in Labels :
      LET targets == targetsOfLabel(l) IN
      targets # <<>> =>
        /\ groupsOfLabel(l) = takenBy(l, 1) \cup takenBy(l, 2) \cup takenBy(l, 3)
        /\ \A j, k \in 1..3 :
             j < k =>
               \A q \in takenBy(l, j), r \in takenBy(l, k) :
                 lessHash(Md5Sum(q), Md5Sum(r))
        /\ \A k \in 1..2 :
             LET G == takenBy(l, k)
                 last == CHOOSE q \in G :
                           \A r \in G : r = q \/ lessHash(Md5Sum(r), Md5Sum(q))
             IN  /\ G # {} => recordsIn(G \ {last}) < targets[k].target
                 /\ recordsIn(G) < targets[k].target =>
                      \A j \in (k + 1)..3 : takenBy(l, j) = {}

\* The plan of a seen label is made: test overshoots its quota with its
\* one group, val has a group and train has the group that remains.
C25_Witness ==
  /\ pc = "planned"
  /\ targetsOfLabel(MainLabel) = seenTargets(recordsIn(groupsOfLabel(MainLabel)))
  /\ Cardinality(takenBy(MainLabel, 1)) = 1
  /\ recordsIn(takenBy(MainLabel, 1)) > targetsOfLabel(MainLabel)[1].target
  /\ takenBy(MainLabel, 2) # {}
  /\ takenBy(MainLabel, 3) # {}

\* ----------------------------------------------------------------------
\* Record k of the input has no usable label: the label table has no row
\* for its process id, or a row with an empty species.
unlabelled(k) == labelTable(tsv, idsOf(input))[input[k].id] = 0

\* The records of the input are where the claim puts them: in pretrain
\* exactly when unlabelled or of a conflicted sequence, and otherwise in the
\* bucket the plan holds for the group of their sequence.
pretrainIffNoDecision ==
  LET m == members(files)
      bad == conflictSeqs(input, labelTable(tsv, idsOf(input)))
  IN  \A k \in 1..Len(input) :
        /\ (input[k].id \in m[bucketPretrain])
             <=> (unlabelled(k) \/ input[k].seq \in bad)
        /\ ~unlabelled(k) /\ input[k].seq \notin bad =>
             /\ Md5Sum(input[k].seq) \in DOMAIN plan.seqBucket
             /\ bucketsOf(m, input[k].id) = {plan.seqBucket[Md5Sum(input[k].seq)]}

walkedFrom(nodes, kept, t, path) ==
  LET n == Len(path)
      added == {path[k] : k \in 1..n}
  IN  /\ n <= WalkLimit
      /\ Cardinality(added) = n
      /\ \A k \in 1..n : path[k] > 0 /\ path[k] \notin kept
      /\ IF n = 0 THEN t <= 0 \/ t \in kept ELSE path[1] = t
      /\ \A k \in 1..(n - 1) :
           /\ path[k] \in DOMAIN nodes
           /\ nodes[path[k]].parent = path[k + 1]
      /\ n \in 1..(WalkLimit - 1) =>
           \/ path[n] \notin DOMAIN nodes
           \/ nodes[path[n]].parent = path[n]
           \/ nodes[path[n]].parent <= 0
           \/ nodes[path[n]].parent \in kept \cup added

\* C27.  Every step of the pruner's loop over the seen_train ids ends: it
\* takes one id off the pending ones, and the walk it makes from the id's
\* taxid adds at most WalkLimit ids to the keep-set, each once, stopping
\* early at an id already kept, at an id without a node, at a self-parent
\* or at a parent <= 0, whatever the taxonomy: with a cycle or a missing
\* node as well.
C27_WalkStops ==
  [][ppc = "walk" /\ ppc' = "walk" =>
       \E pid \in pending \cap DOMAIN pidToTaxid :
         LET t == pidToTaxid[pid]
             path == hops(dump, keep, t, WalkLimit)
         IN  /\ pending' = pending \ {pid}
             /\ keep' = keep \cup Range(path)
             /\ walkedFrom(dump, keep, t, path)
             /\ Cardinality(keep') <= Cardinality(keep) + WalkLimit]_vars

\* The id id lies on a cycle of the parent relation of two ids or more.
onCycle(id) ==
  /\ hasParent(id)
  /\ \E k \in 2..MaxNodes :
       LET path == hops(dump, {}, id, k) IN
         Len(path) = k /\ parentStep(dump, path[k]) = id

\* The pruner has finished on a taxonomy in which a seen_train taxid lies
\* on a cycle and another kept id has no node: the cycle is kept whole and
\* the pruned tree lacks the id without a node.
C27_Witness ==
  /\ ppc = "done"
  /\ \E id \in trainTaxids : onCycle(id) /\ dump[id].parent \in keep
  /\ \E id \in keep : id \notin DOMAIN dump
  /\ prunedIDs # keep
  /\ Cardinality(trainTaxids) = 2

\* ======================================================================
\* The extract command and its files on disk.
\* ======================================================================
\* The runs of the command in one behaviour.
MaxRuns == 2

\* The columns buildTaxonkit looks up in the header of the input.
requiredHeaders ==
  {"processid", "bin_uri", "kingdom", "phylum", "class", "order", "family",
   "subfamily", "tribe", "genus", "species"}

\* The columns prime looks up in the header of the input.
primeHeaders == {"bin_uri", "genus", "species"}

\* The input TSV: empty, or with a header that has every required column,
\* lacks one that prime looks up, or lacks one that only buildTaxonkit
\* looks up.
InputFiles ==
  {[empty |-> TRUE, header |-> {}]}
  \cup {[empty |-> FALSE, header |-> h] :
          h \in {requiredHeaders, requiredHeaders \ {"species"},
                 requiredHeaders \ {"processid"}}}

\* The scanner has no first line, or the header lacks one of the columns.
structuralError(file, columns) == file.empty \/ ~(columns \subseteq file.header)

RunInit ==
  /\ inputFile \in InputFiles
  /\ curateProtocol \in {extractCurationProtocolNone, extractCurationProtocolBioscan5M}
  /\ curateAudit \in {"", "audit.tsv"}
  /\ force \in BOOLEAN
  /\ outputFile = "absent"
  /\ auditFile = "absent"
  /\ rpc = "start"
  /\ runs = 1
  /\ splitIdle
  /\ curateIdle
  /\ pruneIdle
  /\ classifyIdle

\* runExtract up to buildTaxonkit: without -force an output that exists
\* ends the run.
RunExtract ==
  /\ rpc = "start"
  /\ rpc' = IF ~force /\ outputFile # "absent" THEN "skipped" ELSE "build"
  /\ UNCHANGED <<inputFile, curateProtocol, curateAudit, force, outputFile,
                 auditFile, runs, splitVars, curateVars, pruneVars, classifyVars>>

\* buildTaxonkit up to os.Create: newExtractCurator.  Under bioscan-5m
\* openAudit creates the audit file and writes its header, then prime reads
\* the input; on its error closeAudit flushes and closes the audit file.
RunNewExtractCurator ==
  /\ rpc = "build"
  /\ IF curateProtocol = extractCurationProtocolNone
       THEN rpc' = "create" /\ UNCHANGED auditFile
       ELSE /\ auditFile' = IF curateAudit = "" THEN auditFile ELSE "partial"
            /\ rpc' = IF structuralError(inputFile, primeHeaders)
                        THEN "failed" ELSE "create"
  /\ UNCHANGED <<inputFile, curateProtocol, curateAudit, force, outputFile,
                 runs, splitVars, curateVars, pruneVars, classifyVars>>

\* buildTaxonkit from os.Create on: the output is created, then the header
\* of the input is read; on an error the deferred Flush and Close leave
\* the output as it is, otherwise the rows are written and the curator is
\* closed.
RunBuildTaxonkit ==
  /\ rpc = "create"
  /\ IF structuralError(inputFile, requiredHeaders)
       THEN /\ outputFile' = "partial"
            /\ rpc' = "failed"
            /\ UNCHANGED auditFile
       ELSE /\ outputFile' = "complete"
            /\ auditFile' = IF auditFile = "partial" /\ curateAudit # ""
                                 /\ curateProtocol = extractCurationProtocolBioscan5M
                              THEN "complete" ELSE auditFile
            /\ rpc' = "done"
  /\ UNCHANGED <<inputFile, curateProtocol, curateAudit, force, runs,
                 splitVars, curateVars, pruneVars, classifyVars>>

\* The command is run again, on the input as it is then and with the flags
\* given then.
RunAgain ==
  /\ rpc \in {"done", "failed", "skipped"}
  /\ runs < MaxRuns
  /\ runs' = runs + 1
  /\ inputFile' \in InputFiles
  /\ force' \in BOOLEAN
  /\ rpc' = "start"
  /\ UNCHANGED <<curateProtocol, curateAudit, outputFile, auditFile,
                 splitVars, curateVars, pruneVars, classifyVars>>

RunNext ==
  \/ RunExtract
  \/ RunNewExtractCurator
  \/ RunBuildTaxonkit
  \/ RunAgain

SpecRun == RunInit /\ [][RunNext]_vars

\* C28.  When a run has ended on a structural error (the input is empty or
\* its header lacks a required column), neither the output TSV nor the
\* audit file is left partial on disk, and no run is skipped on account of
\* a partial output.
C28_NoFileAfterStructuralError ==
  /\ rpc = "failed" => outputFile # "partial" /\ auditFile # "partial"
  /\ rpc = "skipped" => outputFile # "partial"

\* ----------------------------------------------------------------------
\* The rows buildTaxonkit has curated so far whose record Curate changed,
\* in the order of the input.
changedRows ==
  SelectSeq([i \in 1..curated |-> i], LAMBDA i : curationOf(i).rec # recordOf(i))

\* The place of a rule name in the order of strings.
rulePlace(r) == CHOOSE k \in DOMAIN ruleOrder : ruleOrder[k] = r

\* C29.  Under bioscan-5m with an audit path, after any number of Curate
\* calls the audit file holds one row for every record that changed and
\* none for any other, in the order of the input, so that the number of
\* audit rows is rows_changed, which is at most rows_total; every audit
\* row lists exactly the rules fired for its record, in ascending order.
\* Without an audit path no audit row is written.
C29_AuditRowIffChanged ==
  /\ cstats.RowsChanged <= cstats.RowsTotal
  /\ enabled /\ auditPath = "" => audit.lines = <<>>
  /\ enabled /\ auditPath # "" =>
       /\ Len(audit.lines) = cstats.RowsChanged
       /\ Len(audit.lines) = Len(changedRows)
       /\ cstats.RowsTotal = curated
       /\ \A k \in DOMAIN audit.lines :
            LET line == audit.lines[k]
                c == curationOf(changedRows[k])
            IN  /\ line.processid = recordOf(changedRows[k]).ProcessID
                /\ c.changed
                /\ Range(line.rules) = c.ruleSet
                /\ \A a, b \in DOMAIN line.rules :
                     a < b => rulePlace(line.rules[a]) < rulePlace(line.rules[b])

\* The curator has been closed after a file in which one record was left
\* as it was and another was changed under two rules or more: the audit
\* file holds the one row, its rules in order.
C29_Witness ==
  /\ report.written
  /\ auditPath # ""
  /\ cstats.RowsTotal = 2
  /\ cstats.RowsChanged = 1
  /\ Len(audit.lines) = 1
  /\ Len(audit.lines[1].rules) >= 2

\* ----------------------------------------------------------------------
\* The species is the canonical "Genus epithet" of the genus.
canonicalOf(genus, species) ==
  LET info == bioscanParseSpecies(species) IN
    /\ info.Kind = bioscanSpeciesResolved
    /\ info.Canonical = species
    /\ info.Genus = genus
    /\ species = genus \o info.Epithet

\* C30.  After Curate a record with a species has a genus, and the species
\* begins with it: the species is the canonical "Genus epithet" whose
\* genus is the genus of the record, or the provisional "<genus> sp.
\* <BIN>" of the record; and a record with a genus and a BIN has a
\* species.
C30_SpeciesBeginsWithGenus ==
  enabled =>
    \A i \in 1..curated :
      LET rec == curationOf(i).rec IN
        /\ rec.Species # <<>> =>
             /\ rec.Genus # <<>>
             /\ Len(rec.Species) > Len(rec.Genus)
             /\ SubSeq(rec.Species, 1, Len(rec.Genus)) = rec.Genus
             /\ \/ canonicalOf(rec.Genus, rec.Species)
                \/ rec.Species = rec.Genus \o <<"sp.">> \o rec.BinURI
        /\ rec.Genus # <<>> /\ rec.BinURI # <<>> => rec.Species # <<>>

\* Two records have been curated: the species of one was rewritten into
\* the canonical species of its genus, the species of the other into the
\* provisional label of its genus and BIN.
C30_Witness ==
  /\ enabled
  /\ curated = 2
  /\ \E i \in 1..curated :
       LET rec == curationOf(i).rec IN
         /\ canonicalOf(rec.Genus, rec.Species)
         /\ rec.Species # recordOf(i).Species
  /\ \E i \in 1..curated :
       LET rec == curationOf(i).rec IN
         /\ rec.Species = rec.Genus \o <<"sp.">> \o rec.BinURI
         /\ rec.Species # recordOf(i).Species

====
